---- MODULE Spec2Model ----
(***************************************************************************)
(* A model of Bifrost, the multi-tenant form intake gateway:               *)
(*   - the fixed-window limiter (package server, limiter source),          *)
(*   - the request pipeline of internal/server/middleware.go wrapped       *)
(*     around the router built by internal/server/server.go,               *)
(*   - the form handler, payload validator and notifier loop of            *)
(*     internal/server/handlers/form.go.                                   *)
(* The specifications share the variables:                                 *)
(*   SpecLimiter         concurrent callers of allow() on one limiter,     *)
(*   Spec, SpecQuota     requests travelling through the pipeline,         *)
(*   SpecValidate        validatePayload on bounded forms and payloads,    *)
(*   SpecNotifierFields  validation of a notifier's field lists,           *)
(*   SpecCompare         two limiters given the same calls,                *)
(*   SpecBurst           the calls one key's buckets admit over time,      *)
(*   SpecMain, FairMain  main: the server goroutine, the stop signals,     *)
(*                       the selection between them and Shutdown.          *)
(***************************************************************************)
EXTENDS Integers, Sequences, FiniteSets, TLC

VARIABLES
    limit,      \* fixedWindowLimiter.limit
    window,     \* fixedWindowLimiter.window, in clock ticks
    clock,      \* the wall clock read by time.Now()
    buckets,    \* fixedWindowLimiter.buckets: a map key -> bucket
    callers,    \* SpecLimiter: each concurrent caller of allow()
    calls,      \* history: per key, allow() calls answered in the bucket's lifetime
    last,       \* history: the allow() call that held the mutex last
    vform,      \* SpecValidate: form.Fields, the schema handed to validatePayload
    vpayload,   \* SpecValidate: the decoded payload handed to validatePayload
    vres,       \* SpecValidate: what validatePayload returned
    vop,        \* SpecValidate: history, how vpayload was derived
    pc,         \* Spec: where the request in flight stands
    ex,         \* Spec: the request in flight with its context and response
    nreq,       \* Spec: requests received so far
    ncfg,       \* SpecNotifierFields: the form fields and one notifier's lists
    nres,       \* SpecNotifierFields: what validateSMTPNotifierFields returned
    cmp,        \* SpecCompare: two limiters that are given the same calls
    mn,         \* SpecMain: the process, its goroutines and its channels
    adm,        \* SpecBurst: history, the calls of allow() admitted so far
    boot,       \* SpecConfig: the configuration loaded and the server built from it
    rnd         \* SpecRender: one notification and the bodies rendered for it

limiterVars == <<limit, window, clock, buckets, calls, last>>

valVars == <<vform, vpayload, vres, vop>>

pipeVars == <<pc, ex, nreq>>

configVars == <<ncfg, nres, boot, rnd>>

\* The variables of the specifications that model one function or process
\* on its own.
auxVars == <<configVars, cmp, mn, adm>>

vars == <<limit, window, clock, buckets, callers, calls, last, vform, vpayload, vres, vop,
          pc, ex, nreq, ncfg, nres, cmp, mn, adm, boot, rnd>>

----------------------------------------------------------------------------
(* Bounds of the model.                                                    *)

MaxLimit == 2

MaxWindow == 1

MaxTime == 3

\* The largest min and max a field declares.
MaxBound == 2

\* The most characters of a string value.
MaxStrLen == 2

----------------------------------------------------------------------------
(* JSON values.                                                            *)

Bool(b) == [t |-> "bool", b |-> b]

Num(h) == [t |-> "num", h |-> h]

Str(s) == [t |-> "str", s |-> s]

Arr(a) == [t |-> "arr", a |-> a]

Obj(o) == [t |-> "obj", o |-> o]

Null == [t |-> "null"]

NoResult == [kind |-> "none", field |-> "", msg |-> ""]

NoOp == [kind |-> "none", key |-> "", given |-> <<>>]

\* The validator's variables while no validation is modelled.
InitValidateIdle ==
    /\ vform = <<>>
    /\ vpayload = <<>>
    /\ vres = NoResult
    /\ vop = NoOp

NoRequest == [method |-> "", path |-> "", origin |-> "", token |-> "", remote |-> "", rand |-> TRUE]

\* A request as the pipeline first sees it: nothing attached, nothing written.
NewExchange(req) ==
    [req |-> req,
     go |-> TRUE,            \* the stage just run handed the request on
     site |-> "",            \* context value ctxKeySite
     hasSite |-> FALSE,
     reqid |-> "",           \* context value ctxKeyRequestID
     key |-> "",             \* the limiter key composed by rateLimit
     now |-> 0,              \* the clock as allow() read it
     status |-> 0,           \* the status line sent, 0 while none is
     writes |-> 0,           \* calls of WriteHeader
     rwstatus |-> 0,         \* responseWriter.status: the status of the last call
     body |-> <<>>,          \* what was written to the body, in order
     header |-> <<>>,        \* the response headers set
     trail |-> <<>>,         \* history: the stages and handlers entered
     corsSite |-> "",        \* history: the site in the context as corsByPath found it
     invoked |-> <<>>,       \* history: notifiers whose turn in the loop began
     sent |-> <<>>,          \* history: notifiers handed to sendSES
     delivered |-> <<>>,     \* history: notifiers sendSES sent without error
     decoded |-> "",         \* history: how the body decoded
     payload |-> <<>>,       \* history: the decoded payload
     verr |-> NoResult,      \* history: what validatePayload returned
     panicked |-> FALSE,     \* a panic is unwinding the handler chain
     logged |-> -1]          \* the status in the access-log record, -1 without one

\* The pipeline's variables while no request is modelled.
InitPipelineIdle ==
    /\ pc = "idle"
    /\ ex = NewExchange(NoRequest)
    /\ nreq = 0

\* No notifier configuration is under validation.
NoNotifier == [fields |-> {}, hidden |-> <<>>, order |-> <<>>, hasOrder |-> FALSE]

\* No notification is rendered.
NoRender ==
    [pc |-> "none", fields |-> <<>>, payload |-> <<>>, hidden |-> <<>>, order |-> <<>>,
     html |-> <<>>, text |-> <<>>]

\* No configuration is loaded.
NoBoot ==
    [pc |-> "none", cfg |-> <<>>, err |-> "", paths |-> <<>>, patterns |-> {}, owners |-> {},
     panicked |-> FALSE]

InitConfigIdle ==
    /\ ncfg = NoNotifier
    /\ nres = "none"
    /\ boot = NoBoot
    /\ rnd = NoRender

\* No pair of limiters is under comparison.
NoLimiter == [limit |-> 0, window |-> 0]

NoCompare ==
    [phase |-> "none", a |-> NoLimiter, b |-> NoLimiter, errA |-> "", errB |-> "",
     bsA |-> <<>>, bsB |-> <<>>, called |-> FALSE, okA |-> FALSE, okB |-> FALSE]

InitCompareIdle == cmp = NoCompare

\* The process is not modelled.
NoMain ==
    [pc |-> "none", srv |-> "none", registered |-> FALSE, sigCh |-> <<>>, errCh |-> <<>>,
     nsig |-> 0, fired |-> {}, trigger |-> "none", closed |-> FALSE, shutdowns |-> 0,
     serr |-> "none", code |-> -1]

InitMainIdle == mn = NoMain

\* No admitted call is recorded.
InitBurstIdle == adm = <<>>

InitAuxIdle == InitConfigIdle /\ InitCompareIdle /\ InitMainIdle /\ InitBurstIdle

----------------------------------------------------------------------------
(* The fixed-window limiter.                                               *)

LimiterKeys == {"A", "B"}

Callers == {"c1", "c2"}

\* time.Time.After: strictly later.
After(t, u) == t > u

\* newFixedWindowLimiter: the error it returns, "" for none.
newFixedWindowLimiter(lim, win) ==
    IF lim < 0 THEN "negative limit"
    ELSE IF win < 0 THEN "negative window"
    ELSE ""

\* l.buckets[key] = b
PutBucket(bs, key, b) ==
    [k \in (DOMAIN bs) \cup {key} |-> IF k = key THEN b ELSE bs[k]]

\* A plausible slip: the exhaustion test runs before the expiry test.
allowExhaustFirst(bs, key, now) ==
    IF key \in DOMAIN bs /\ bs[key].count >= limit
    THEN [ok |-> FALSE, buckets |-> bs]
    ELSE IF key \notin DOMAIN bs \/ After(now, bs[key].resetAt)
    THEN [ok |-> TRUE,
          buckets |-> PutBucket(bs, key, [count |-> 1, resetAt |-> now + window])]
    ELSE [ok |-> TRUE,
          buckets |-> PutBucket(bs, key, [bs[key] EXCEPT !.count = @ + 1])]

\* A plausible slip: a new window starts from a fresh map.
allowFreshMap(bs, key, now) ==
    IF key \notin DOMAIN bs \/ After(now, bs[key].resetAt)
    THEN [ok |-> TRUE,
          buckets |-> PutBucket(<<>>, key, [count |-> 1, resetAt |-> now + window])]
    ELSE IF bs[key].count >= limit
    THEN [ok |-> FALSE, buckets |-> bs]
    ELSE [ok |-> TRUE,
          buckets |-> PutBucket(bs, key, [bs[key] EXCEPT !.count = @ + 1])]

\* A plausible slip: the count is incremented before it is compared, so a
\* denied call is counted too.
allowCountsDenied(bs, key, now) ==
    IF key \notin DOMAIN bs \/ After(now, bs[key].resetAt)
    THEN [ok |-> TRUE,
          buckets |-> PutBucket(bs, key, [count |-> 1, resetAt |-> now + window])]
    ELSE [ok |-> bs[key].count < limit,
          buckets |-> PutBucket(bs, key, [bs[key] EXCEPT !.count = @ + 1])]

\* A plausible slip: the count is compared with > where >= is meant.
allowOffByOne(bs, key, now) ==
    IF key \notin DOMAIN bs \/ After(now, bs[key].resetAt)
    THEN [ok |-> TRUE,
          buckets |-> PutBucket(bs, key, [count |-> 1, resetAt |-> now + window])]
    ELSE IF bs[key].count > limit
    THEN [ok |-> FALSE, buckets |-> bs]
    ELSE [ok |-> TRUE,
          buckets |-> PutBucket(bs, key, [bs[key] EXCEPT !.count = @ + 1])]

\* A plausible slip: a bucket serves the calls of its own window only, so a
\* call that read the clock at another instant opens a bucket for itself.
allowWindowOfCall(bs, key, now) ==
    IF key \notin DOMAIN bs \/ now + window # bs[key].resetAt
    THEN [ok |-> TRUE,
          buckets |-> PutBucket(bs, key, [count |-> 1, resetAt |-> now + window])]
    ELSE IF bs[key].count >= limit
    THEN [ok |-> FALSE, buckets |-> bs]
    ELSE [ok |-> TRUE,
          buckets |-> PutBucket(bs, key, [bs[key] EXCEPT !.count = @ + 1])]

\* A plausible slip: opening a bucket sweeps the buckets whose window ended.
allowEvictsExpired(bs, key, now) ==
    IF key \notin DOMAIN bs \/ After(now, bs[key].resetAt)
    THEN [ok |-> TRUE,
          buckets |-> PutBucket([k \in { j \in DOMAIN bs : ~After(now, bs[j].resetAt) } |-> bs[k]],
                                key, [count |-> 1, resetAt |-> now + window])]
    ELSE IF bs[key].count >= limit
    THEN [ok |-> FALSE, buckets |-> bs]
    ELSE [ok |-> TRUE,
          buckets |-> PutBucket(bs, key, [bs[key] EXCEPT !.count = @ + 1])]

\* fixedWindowLimiter.allow, the part under the mutex, on the limiter l with
\* the bucket map bs: `now` was read before.
allowWith(l, bs, key, now) ==
    IF key \notin DOMAIN bs \/ After(now, bs[key].resetAt)
    THEN [ok |-> TRUE,
          buckets |-> PutBucket(bs, key, [count |-> 1, resetAt |-> now + l.window])]
    ELSE IF bs[key].count >= l.limit
    THEN [ok |-> FALSE, buckets |-> bs]
    ELSE [ok |-> TRUE,
          buckets |-> PutBucket(bs, key, [bs[key] EXCEPT !.count = @ + 1])]

\* allow on the limiter the variables limit, window and buckets hold.
allow(bs, key, now) ==
    allowWith([limit |-> limit, window |-> window], bs, key, now)

NoBucket == [count |-> 0, resetAt |-> 0]

NoCall == [key |-> "", now |-> 0, had |-> FALSE, pre |-> NoBucket, ok |-> FALSE, n |-> 0]

\* History of one allow() call: whether it opened a new bucket, and its
\* position n among the calls answered in the bucket's lifetime, counted up
\* to limit + 2 (every later position is "after the limit" as well).
CallIndex(bs, key, now) ==
    IF key \notin DOMAIN bs \/ After(now, bs[key].resetAt) THEN 1
    ELSE IF calls[key] >= limit + 2 THEN calls[key]
    ELSE calls[key] + 1

\* One complete critical section of allow(key), with its history.
LimiterStep(key, now) ==
    LET r == allow(buckets, key, now)
        n == CallIndex(buckets, key, now)
    IN  /\ buckets' = r.buckets
        /\ calls' = [k \in (DOMAIN calls) \cup {key} |-> IF k = key THEN n ELSE calls[k]]
        /\ last' = [key |-> key, now |-> now,
                    had |-> key \in DOMAIN buckets,
                    pre |-> IF key \in DOMAIN buckets THEN buckets[key] ELSE NoBucket,
                    ok |-> r.ok, n |-> n]

IdleCaller == [pc |-> "idle", key |-> "", now |-> 0]

InitLimiterState ==
    /\ clock = 0
    /\ buckets = <<>>
    /\ calls = <<>>
    /\ last = NoCall

InitLimiter ==
    /\ limit \in 0..MaxLimit
    /\ window \in 0..MaxWindow
    /\ newFixedWindowLimiter(limit, window) = ""
    /\ InitLimiterState
    /\ callers = [c \in Callers |-> IdleCaller]
    /\ InitValidateIdle
    /\ InitPipelineIdle
    /\ InitAuxIdle

\* allow(), line 56: the caller reads the clock before it takes the mutex.
ReadClock(c, key) ==
    /\ callers[c].pc = "idle"
    /\ callers' = [callers EXCEPT ![c] = [pc |-> "read", key |-> key, now |-> clock]]
    /\ UNCHANGED <<auxVars, limiterVars, valVars, pipeVars>>

\* allow(), lines 58-78: the critical section, atomic under the mutex.
AllowBody(c) ==
    /\ callers[c].pc = "read"
    /\ LimiterStep(callers[c].key, callers[c].now)
    /\ callers' = [callers EXCEPT ![c] = IdleCaller]
    /\ UNCHANGED <<auxVars, limit, window, clock, valVars, pipeVars>>

\* Time passes.
Tick ==
    /\ clock < MaxTime
    /\ clock' = clock + 1
    /\ UNCHANGED <<auxVars, limit, window, buckets, callers, calls, last, valVars, pipeVars>>

NextLimiter ==
    \/ \E c \in Callers, key \in LimiterKeys : ReadClock(c, key)
    \/ \E c \in Callers : AllowBody(c)
    \/ Tick

SpecLimiter == InitLimiter /\ [][NextLimiter]_vars

----------------------------------------------------------------------------
(* The payload validator of internal/server/handlers/form.go.              *)
(*                                                                         *)
(* A decoded JSON value is a record tagged by its dynamic Go type:         *)
(*   bool            [t |-> "bool", b |-> BOOLEAN]                         *)
(*   float64         [t |-> "num", h |-> twice the number]                 *)
(*   string          [t |-> "str", s |-> sequence of characters]          *)
(*   []any           [t |-> "arr", a |-> sequence of values]               *)
(*   map[string]any  [t |-> "obj", o |-> function from keys to values]     *)
(*   nil             [t |-> "null"]                                        *)
(* A number is kept as twice its value, so that halves are values too.     *)
(* A character is "a" (one byte in UTF-8) or a-umlaut, written "ae" here    *)
(* (two bytes in UTF-8).                                                   *)

Chars == {"a", "ae"}

\* The bytes of one character in the UTF-8 encoding Go strings hold.
ByteWidth(c) == IF c = "a" THEN 1 ELSE 2

\* len(s) of a Go string: its length in bytes.
RECURSIVE len(_)
len(s) == IF s = <<>> THEN 0 ELSE ByteWidth(Head(s)) + len(Tail(s))

\* int(f) of a float64: truncation toward zero (h is twice f).
int(h) == IF h >= 0 THEN h \div 2 ELSE -((-h) \div 2)

\* config.FormFieldType.String()
FieldTypes == {"bool", "int", "string", "objects"}

PayloadError(field, msg) == [kind |-> "error", field |-> field, msg |-> msg]

Panic(field) == [kind |-> "panic", field |-> field, msg |-> "panic"]

NoError == [kind |-> "nil", field |-> "", msg |-> ""]

\* A plausible slip: the default case of the type switch is left out, so a
\* null or an object value passes the first loop.
PassOneErrorsNoDefault(fields, payload) ==
    { PayloadError(k, IF k \notin DOMAIN fields THEN "unknown field" ELSE "invalid type") :
        k \in { k \in DOMAIN payload :
                  \/ k \notin DOMAIN fields
                  \/ payload[k].t = "bool" /\ fields[k].type # "bool"
                  \/ payload[k].t = "num" /\ fields[k].type # "int"
                  \/ payload[k].t = "str" /\ fields[k].type # "string"
                  \/ payload[k].t = "arr" /\ fields[k].type # "objects" } }

\* validatePayload, lines 306-349: the errors the first loop can return; the
\* payload is a Go map, so any offending key may be the one met first.
PassOneErrors(fields, payload) ==
    { PayloadError(k, IF k \notin DOMAIN fields THEN "unknown field" ELSE "invalid type") :
        k \in { k \in DOMAIN payload :
                  \/ k \notin DOMAIN fields
                  \/ payload[k].t = "bool" /\ fields[k].type # "bool"
                  \/ payload[k].t = "num" /\ fields[k].type # "int"
                  \/ payload[k].t = "str" /\ fields[k].type # "string"
                  \/ payload[k].t = "arr" /\ fields[k].type # "objects"
                  \/ payload[k].t \notin {"bool", "num", "str", "arr"} } }

\* validatePayload, lines 450-502: what one key of an array element can end in.
SubValueProblems(k, shape, obj) ==
    { PayloadError(k, "unknown sub-field") : name \in { n \in DOMAIN obj : n \notin DOMAIN shape } }
    \cup
    { IF shape[name] \in {"bool", "int", "string"}
      THEN PayloadError(k, "sub-value type")
      ELSE Panic(k) :
        name \in { n \in DOMAIN obj :
                     /\ n \in DOMAIN shape
                     /\ ~ \/ shape[n] = "bool" /\ obj[n].t = "bool"
                          \/ shape[n] = "int" /\ obj[n].t = "num"
                          \/ shape[n] = "string" /\ obj[n].t = "str" } }

\* A plausible slip: the loop over field.Shape that looks for the keys an
\* element lacks is left out.
ElementProblemsNoMissing(k, shape, a) ==
    IF a.t # "obj" THEN {PayloadError(k, "element not a map")}
    ELSE SubValueProblems(k, shape, a.o)

\* validatePayload, lines 439-516: what one element of the array can end in.
ElementProblems(k, shape, a) ==
    IF a.t # "obj" THEN {PayloadError(k, "element not a map")}
    ELSE IF SubValueProblems(k, shape, a.o) # {} THEN SubValueProblems(k, shape, a.o)
    ELSE { PayloadError(k, "sub-value missing") : name \in { n \in DOMAIN shape : n \notin DOMAIN a.o } }

\* The elements are visited in order: the first one with a problem decides.
RECURSIVE ArrayProblems(_, _, _)
ArrayProblems(k, shape, arr) ==
    IF arr = <<>> THEN {}
    ELSE IF ElementProblems(k, shape, Head(arr)) # {} THEN ElementProblems(k, shape, Head(arr))
    ELSE ArrayProblems(k, shape, Tail(arr))

\* A plausible slip: an absent field is skipped whether required or not.
AbsentProblemsSkipAll(k, field) == {}

\* validatePayload, lines 352-362: a declared field the payload lacks.
AbsentProblems(k, field) ==
    IF field.required THEN {PayloadError(k, "missing required field")} ELSE {}

\* A plausible slip: the length test forgets that max = 0 means unbounded.
StringProblemsAlwaysBounded(k, field, s) ==
    IF field.required /\ s = <<>> THEN {PayloadError(k, "required but empty")}
    ELSE IF len(s) < field.min \/ len(s) > field.max
    THEN {PayloadError(k, "length out of range")}
    ELSE {}

\* validatePayload, lines 407-425: the tests of a string value.
StringProblems(k, field, s) ==
    IF field.required /\ s = <<>> THEN {PayloadError(k, "required but empty")}
    ELSE IF (len(s) < field.min \/ len(s) > field.max) /\ field.max # 0
    THEN {PayloadError(k, "length out of range")}
    ELSE {}

\* validatePayload, lines 351-520: what the second loop can end in at field k.
FieldProblems(k, field, payload) ==
    IF k \notin DOMAIN payload THEN AbsentProblems(k, field)
    ELSE LET val == payload[k] IN
      CASE field.type = "bool" ->
             IF val.t # "bool" THEN {Panic(k)}
             ELSE IF field.required /\ ~val.b THEN {PayloadError(k, "required but false")}
             ELSE {}
        [] field.type = "int" ->
             IF val.t # "num" THEN {Panic(k)}
             ELSE IF int(val.h) < field.min \/ int(val.h) > field.max
             THEN {PayloadError(k, "value out of range")}
             ELSE {}
        [] field.type = "string" ->
             IF val.t # "str" THEN {Panic(k)} ELSE StringProblems(k, field, val.s)
        [] field.type = "objects" ->
             IF val.t # "arr" /\ field.required THEN {Panic(k)}
             ELSE LET arr == IF val.t = "arr" THEN val.a ELSE <<>> IN
                  IF field.required /\ arr = <<>> THEN {PayloadError(k, "required but empty")}
                  ELSE ArrayProblems(k, field.shape, arr)
        [] OTHER -> {Panic(k)}

\* validatePayload: every result a run can return (the nil error, a
\* payloadError, or a panic); Go's map iteration order picks among them.
validatePayload(fields, payload) ==
    IF PassOneErrors(fields, payload) # {} THEN PassOneErrors(fields, payload)
    ELSE LET second == UNION { FieldProblems(k, fields[k], payload) : k \in DOMAIN fields }
         IN  IF second = {} THEN {NoError} ELSE second

----------------------------------------------------------------------------
(* SpecValidate: validatePayload applied to bounded forms and payloads.    *)
(* The form declares the fields "f" and "g"; "x" is a key it does not      *)
(* declare.  The schemas are those config validation lets through:         *)
(* 0 <= min <= max.                                                        *)

Ranges == { r \in (0..MaxBound) \X (0..MaxBound) : r[1] <= r[2] }

Shapes == { [k |-> "string"], [k |-> "int", j |-> "bool"], [k |-> "objects"] }

Field(type, required, range, shape) ==
    [type |-> type, required |-> required, min |-> range[1], max |-> range[2], shape |-> shape]

FieldConfigs ==
    { Field(ty, rq, r, <<>>) : ty \in {"bool", "int", "string"}, rq \in BOOLEAN, r \in Ranges }
    \cup { Field("objects", rq, r, sh) :
             rq \in BOOLEAN, r \in {<<0, 0>>, <<1, 1>>, <<1, MaxBound>>}, sh \in Shapes }

OtherFieldConfigs ==
    { Field("string", TRUE, <<1, MaxBound>>, <<>>), Field("bool", FALSE, <<0, 0>>, <<>>) }

Strings == UNION { [1..n -> Chars] : n \in 0..MaxStrLen }

Numbers == { Num(h) : h \in (-1)..(2 * MaxBound + 3) }

Elements ==
    { Obj([k |-> Str(<<"a">>)]), Obj([k |-> Num(2)]), Obj([k |-> Num(2), j |-> Bool(TRUE)]),
      Obj([k |-> Str(<<"a">>), z |-> Str(<<>>)]), Obj(<<>>), Str(<<"a">>) }

Arrays ==
    {Arr(<<>>)} \cup { Arr(<<e>>) : e \in Elements }
    \cup { Arr(<<e1, e2>>) : e1 \in {Obj([k |-> Str(<<"a">>)]), Obj([k |-> Num(2), j |-> Bool(TRUE)])},
                             e2 \in Elements }

Values ==
    { Bool(b) : b \in BOOLEAN } \cup Numbers \cup { Str(s) : s \in Strings } \cup Arrays
    \cup { Null, Obj([k |-> Str(<<"a">>)]) }

OtherValues == { Str(<<"a">>), Str(<<>>), Bool(TRUE) }

Absent == [t |-> "absent"]

\* The payload holding the given values, an Absent one left out.
MakePayload(f, g, x) ==
    LET all == [f |-> f, g |-> g, x |-> x]
    IN  [k \in { k \in DOMAIN all : all[k] # Absent } |-> all[k]]

\* delete(payload, k)
Without(payload, k) == [j \in (DOMAIN payload) \ {k} |-> payload[j]]

\* payload[k] = v
With(payload, k, v) == [j \in (DOMAIN payload) \cup {k} |-> IF j = k THEN v ELSE payload[j]]

InitValidate ==
    /\ limit = 1
    /\ window = 1
    /\ InitLimiterState
    /\ callers = [c \in Callers |-> IdleCaller]
    /\ \E fc \in FieldConfigs, gc \in OtherFieldConfigs : vform = [f |-> fc, g |-> gc]
    /\ \E f \in Values \cup {Absent}, g \in OtherValues \cup {Absent}, x \in {Absent, Str(<<"a">>)} :
           vpayload = MakePayload(f, g, x)
    /\ vres = NoResult
    /\ vop = NoOp
    /\ InitPipelineIdle
    /\ InitAuxIdle

\* validatePayload(form, payload) on the payload as given.
Validate ==
    /\ vop.kind = "none"
    /\ vres' \in validatePayload(vform, vpayload)
    /\ vop' = [kind |-> "validate", key |-> "", given |-> vpayload]
    /\ UNCHANGED <<auxVars, vform, vpayload, limiterVars, callers, pipeVars>>

\* validatePayload on the payload with one key removed; the history keeps
\* the payload as given.
RemoveValidate(k) ==
    /\ vop.kind = "none"
    /\ k \in DOMAIN vpayload
    /\ vpayload' = Without(vpayload, k)
    /\ vres' \in validatePayload(vform, vpayload')
    /\ vop' = [kind |-> "remove", key |-> k, given |-> vpayload]
    /\ UNCHANGED <<auxVars, vform, limiterVars, callers, pipeVars>>

\* validatePayload on the payload with one more key.
AddValidate(k, v) ==
    /\ vop.kind = "none"
    /\ k \notin DOMAIN vpayload
    /\ vpayload' = With(vpayload, k, v)
    /\ vres' \in validatePayload(vform, vpayload')
    /\ vop' = [kind |-> "add", key |-> k, given |-> vpayload]
    /\ UNCHANGED <<auxVars, vform, limiterVars, callers, pipeVars>>

NextValidate ==
    \/ Validate
    \/ \E k \in {"f", "g", "x"} : RemoveValidate(k)
    \/ \E k \in {"f", "g", "x"}, v \in {Str(<<"a">>), Bool(TRUE)} : AddValidate(k, v)

SpecValidate == InitValidate /\ [][NextValidate]_vars

----------------------------------------------------------------------------
(* The configuration the server is started with: two sites, three forms.   *)
(* It passes config validation: site ids and tokens are non-empty, no id   *)
(* is "_", every site allows an origin, the rate limit is positive, no     *)
(* accessControlMaxAge is negative.                                        *)

apiPrefix == "/v1"

siteTokenHeader == "X-Bifrost-Token"

ContactFields == [name |-> Field("string", TRUE, <<1, 2>>, <<>>)]

\* A form with an optional object array whose shape declares a nested
\* array: form validation lets the shape through, validatePayload panics
\* on an element that holds the key.
OrderFields ==
    [name |-> Field("string", TRUE, <<1, 2>>, <<>>),
     items |-> Field("objects", FALSE, <<0, 0>>, [k |-> "objects"])]

Sites ==
    << [ID |-> "a", Token |-> "ta", AllowedOrigins |-> {"https://a.example"},
        Forms |-> << [ID |-> "f1", Token |-> "", AccessControlMaxAge |-> 600,
                      Fields |-> ContactFields, SESNotifiers |-> <<"n1", "n2">>],
                     [ID |-> "f2", Token |-> "tf", AccessControlMaxAge |-> 0,
                      Fields |-> ContactFields, SESNotifiers |-> <<"n1">>] >>],
       [ID |-> "b", Token |-> "tb", AllowedOrigins |-> {"*"},
        Forms |-> << [ID |-> "f1", Token |-> "", AccessControlMaxAge |-> 5,
                      Fields |-> OrderFields, SESNotifiers |-> <<>>] >>] >>

\* The forms in the order New registers them: <<site index, form index>>.
Registrations == { <<i, j>> : i \in 1..Len(Sites), j \in 1..2 } \cap
                 { r \in (1..Len(Sites)) \X (1..2) : r[2] <= Len(Sites[r[1]].Forms) }

\* New, line 60.
FormPath(r) == apiPrefix \o "/forms/" \o Sites[r[1]].ID \o "/" \o Sites[r[1]].Forms[r[2]].ID

\* The registration that wrote a path last.
Owner(path) ==
    CHOOSE r \in Registrations :
        /\ FormPath(r) = path
        /\ \A q \in Registrations :
               FormPath(q) = path => (q[1] < r[1] \/ (q[1] = r[1] /\ q[2] <= r[2]))

FormPaths == { FormPath(r) : r \in Registrations }

\* The token a path requires: the token of the owning site; none for /health.
PathToken(path) == IF path = "/health" THEN "" ELSE Sites[Owner(path)[1]].Token

\* A plausible slip: the health-check path is registered under the id of a
\* tenant site.
pathsHealthAsTenant ==
    [p \in {"/health"} \cup FormPaths |->
        IF p = "/health"
        THEN [site |-> Sites[1].ID, allowedOrigins |-> {"*"}, token |-> PathToken(p)]
        ELSE [site |-> Sites[Owner(p)[1]].ID,
              allowedOrigins |-> Sites[Owner(p)[1]].AllowedOrigins,
              token |-> PathToken(p)]]

\* A plausible slip: the health-check path is registered without a site.
pathsHealthUnnamed ==
    [p \in {"/health"} \cup FormPaths |->
        IF p = "/health"
        THEN [site |-> "", allowedOrigins |-> {"*"}, token |-> PathToken(p)]
        ELSE [site |-> Sites[Owner(p)[1]].ID,
              allowedOrigins |-> Sites[Owner(p)[1]].AllowedOrigins,
              token |-> PathToken(p)]]

\* New, lines 49-69: the path registry.
paths ==
    [p \in {"/health"} \cup FormPaths |->
        IF p = "/health"
        THEN [site |-> "_", allowedOrigins |-> {"*"}, token |-> PathToken(p)]
        ELSE [site |-> Sites[Owner(p)[1]].ID,
              allowedOrigins |-> Sites[Owner(p)[1]].AllowedOrigins,
              token |-> PathToken(p)]]

\* config.Config.validate, lines 95-97.
RateLimitValid(perIPSiteMinute) == perIPSiteMinute > 0

\* New, line 43: the window is time.Minute; the clock ticks in minutes.
Minute == 1

----------------------------------------------------------------------------
(* The requests of the model.                                              *)

Methods == {"GET", "POST", "OPTIONS"}

RequestPaths == {"/health", "/v1/forms/a/f1", "/v1/forms/a/f2", "/v1/forms/b/f1", "/v1/forms/a/nope"}

Origins == {"", "https://a.example", "https://evil.example"}

Tokens == {"", "ta", "tb"}

RemoteAddrs == {"10.0.0.1:5000", "10.0.0.2:5000"}

\* The requests of one client: every method, origin and token on the form
\* paths, every method and origin on /health, every method on a path that
\* is not registered, one request whose identifier cannot be generated, and
\* one whose Origin is an allowed origin followed by a slash.
Request(m, p, o, t, r) ==
    [method |-> m, path |-> p, origin |-> o, token |-> t, remote |-> r, rand |-> TRUE]

Requests ==
    { Request(m, p, o, t, "10.0.0.1:5000") :
        m \in Methods, p \in RequestPaths \ {"/health", "/v1/forms/a/nope"},
        o \in Origins, t \in Tokens }
    \cup { Request(m, "/health", o, "", "10.0.0.1:5000") : m \in Methods, o \in Origins }
    \cup { Request(m, "/v1/forms/a/nope", "https://a.example", "ta", "10.0.0.1:5000") : m \in Methods }
    \cup { [Request("POST", "/v1/forms/a/f1", "https://a.example", "ta", "10.0.0.1:5000")
              EXCEPT !.rand = FALSE],
           Request("POST", "/v1/forms/a/f1", "https://a.example/", "ta", "10.0.0.1:5000") }

\* The requests of two clients that spend or try to spend the quota of a
\* site: submissions to each form, a preflight, a GET, a health probe, and
\* a submission without its token.
QuotaRequests ==
    { Request("POST", p, "https://a.example", "ta", r) :
        p \in {"/v1/forms/a/f1", "/v1/forms/a/f2"}, r \in RemoteAddrs }
    \cup { Request("POST", "/v1/forms/b/f1", "https://a.example", "tb", "10.0.0.1:5000"),
           Request("OPTIONS", "/v1/forms/a/f1", "https://a.example", "", "10.0.0.1:5000"),
           Request("GET", "/v1/forms/a/f1", "https://a.example", "ta", "10.0.0.1:5000"),
           Request("GET", "/health", "", "", "10.0.0.1:5000"),
           Request("POST", "/v1/forms/a/f1", "https://a.example", "", "10.0.0.1:5000") }

PipePayloads ==
    { [name |-> Str(<<"a">>)], <<>>, [name |-> Str(<<"a">>), x |-> Bool(TRUE)],
      [name |-> Str(<<"a">>), items |-> Arr(<<Obj([k |-> Str(<<"a">>)])>>)] }

\* A request body: bytes that do not decode, bytes beyond the ceiling of
\* http.MaxBytesHandler (the read fails with an error when the decoder
\* reaches the ceiling), one JSON object, or one JSON object followed by
\* more.
NoBody == [kind |-> "malformed", payload |-> <<>>]

Oversized == [kind |-> "oversized", payload |-> <<>>]

Bodies ==
    {NoBody, Oversized}
    \cup { [kind |-> k, payload |-> pl] : k \in {"object", "more"}, pl \in PipePayloads }

\* What the templates and the mail transport do for one notifier: all
\* succeed, or the named step fails.
Outcomes == {"ok", "subject", "intro", "object", "html", "text", "send"}

\* The fates of the notifiers of one request: what happens to each in turn.
\* The loop never looks past the first failure, so one continuation stands
\* for all.
Fates ==
    { outs \in [1..2 -> Outcomes] : outs[1] # "ok" => outs[2] = "ok" }

----------------------------------------------------------------------------
(* internal/server/middleware.go and the handlers.                         *)

Enter(x, stage) == [x EXCEPT !.trail = Append(@, stage)]

Stop(x) == [x EXCEPT !.go = FALSE]

SetHeader(x, name, value) ==
    [x EXCEPT !.header = [h \in (DOMAIN @) \cup {name} |-> IF h = name THEN value ELSE @[h]]]

\* ResponseWriter.WriteHeader: the first call sends the status line;
\* responseWriter.WriteHeader (lines 46-49) keeps the status of every call.
WriteHeader(x, code) ==
    [x EXCEPT !.status = IF @ = 0 THEN code ELSE @, !.writes = @ + 1, !.rwstatus = code]

\* ResponseWriter.Write
Write(x, text) == [x EXCEPT !.body = Append(@, text)]

\* http.Error
httpError(x, text, code) == Write(WriteHeader(x, code), text)

\* remoteIP: the host of RemoteAddr, RemoteAddr itself if it has no port.
remoteIP(req) ==
    IF req.remote = "10.0.0.1:5000" THEN "10.0.0.1"
    ELSE IF req.remote = "10.0.0.2:5000" THEN "10.0.0.2"
    ELSE req.remote

\* A plausible slip: the identifier is put in the context only, the
\* response header is not set.
requestIDNoHeader(x) ==
    LET y == Enter(x, "requestID") IN
    IF ~y.req.rand THEN Stop(httpError(y, "Internal Server Error", 500))
    ELSE [y EXCEPT !.reqid = "rid"]

\* requestID, lines 81-98.
requestID(x) ==
    LET y == Enter(x, "requestID") IN
    IF ~y.req.rand THEN Stop(httpError(y, "Internal Server Error", 500))
    ELSE [SetHeader(y, "X-Request-Id", "rid") EXCEPT !.reqid = "rid"]

\* A plausible slip: a path that is not registered is let through without
\* a site.
pathContextPassesUnknown(x) ==
    LET y == Enter(x, "pathContext") IN
    IF y.req.path \notin DOMAIN paths THEN y
    ELSE IF paths[y.req.path].site = "" THEN y
    ELSE [y EXCEPT !.site = paths[y.req.path].site, !.hasSite = TRUE]

\* pathContext, lines 158-179.
pathContext(x) ==
    LET y == Enter(x, "pathContext") IN
    IF y.req.path \notin DOMAIN paths THEN Stop(httpError(y, "Not Found", 404))
    ELSE IF paths[y.req.path].site = "" THEN y
    ELSE [y EXCEPT !.site = paths[y.req.path].site, !.hasSite = TRUE]

\* strings.HasPrefix(path, "/"): every path of the model is absolute.
HasSlashPrefix(path) == path \in RequestPaths

\* The shape test of corsByPath and verifyToken: "", "/" and relative paths.
BadPathShape(path) == path = "" \/ path = "/" \/ ~HasSlashPrefix(path)

\* A plausible slip: the wildcard is not looked for, the Origin must be listed.
corsByPathNoWildcard(x) ==
    LET y == [Enter(x, "corsByPath") EXCEPT !.corsSite = x.site]
        path == y.req.path
        origin == y.req.origin
    IN
    IF BadPathShape(path) THEN Stop(httpError(y, "Not Found", 404))
    ELSE IF path \notin DOMAIN paths THEN Stop(httpError(y, "Forbidden", 403))
    ELSE IF origin \notin paths[path].allowedOrigins THEN Stop(httpError(y, "Forbidden", 403))
    ELSE SetHeader(SetHeader(y, "Access-Control-Allow-Origin", origin), "Vary", "Origin")

\* A plausible slip: without the wildcard only an empty Origin is refused.
corsByPathAnyOrigin(x) ==
    LET y == [Enter(x, "corsByPath") EXCEPT !.corsSite = x.site]
        path == y.req.path
        origin == y.req.origin
    IN
    IF BadPathShape(path) THEN Stop(httpError(y, "Not Found", 404))
    ELSE IF path \notin DOMAIN paths THEN Stop(httpError(y, "Forbidden", 403))
    ELSE LET wildcard == "*" \in paths[path].allowedOrigins IN
         IF origin = "" /\ ~wildcard THEN Stop(httpError(y, "Forbidden", 403))
         ELSE SetHeader(SetHeader(y, "Access-Control-Allow-Origin", origin), "Vary", "Origin")

\* A plausible slip: a request without an Origin is taken for a same-origin
\* request and handed on.
corsByPathNoOriginPasses(x) ==
    LET y == [Enter(x, "corsByPath") EXCEPT !.corsSite = x.site]
        path == y.req.path
        origin == y.req.origin
    IN
    IF BadPathShape(path) THEN Stop(httpError(y, "Not Found", 404))
    ELSE IF path \notin DOMAIN paths THEN Stop(httpError(y, "Forbidden", 403))
    ELSE LET wildcard == "*" \in paths[path].allowedOrigins IN
         IF origin # "" /\ ~wildcard /\ origin \notin paths[path].allowedOrigins
         THEN Stop(httpError(y, "Forbidden", 403))
         ELSE SetHeader(SetHeader(y, "Access-Control-Allow-Origin", origin), "Vary", "Origin")

\* A plausible slip: the response headers are set before the Origin is
\* tested.
corsByPathHeadersFirst(x) ==
    LET y == [Enter(x, "corsByPath") EXCEPT !.corsSite = x.site]
        path == y.req.path
        origin == y.req.origin
        z == SetHeader(SetHeader(y, "Access-Control-Allow-Origin", origin), "Vary", "Origin")
    IN
    IF BadPathShape(path) THEN Stop(httpError(y, "Not Found", 404))
    ELSE IF path \notin DOMAIN paths THEN Stop(httpError(y, "Forbidden", 403))
    ELSE LET wildcard == "*" \in paths[path].allowedOrigins IN
         IF origin = "" /\ ~wildcard THEN Stop(httpError(z, "Forbidden", 403))
         ELSE IF ~wildcard /\ origin \notin paths[path].allowedOrigins
         THEN Stop(httpError(z, "Forbidden", 403))
         ELSE z

\* corsByPath, lines 181-220.
corsByPath(x) ==
    LET y == [Enter(x, "corsByPath") EXCEPT !.corsSite = x.site]
        path == y.req.path
        origin == y.req.origin
    IN
    IF BadPathShape(path) THEN Stop(httpError(y, "Not Found", 404))
    ELSE IF path \notin DOMAIN paths THEN Stop(httpError(y, "Forbidden", 403))
    ELSE LET wildcard == "*" \in paths[path].allowedOrigins IN
         IF origin = "" /\ ~wildcard THEN Stop(httpError(y, "Forbidden", 403))
         ELSE IF ~wildcard /\ origin \notin paths[path].allowedOrigins
         THEN Stop(httpError(y, "Forbidden", 403))
         ELSE SetHeader(SetHeader(y, "Access-Control-Allow-Origin", origin), "Vary", "Origin")

\* A plausible slip: only a wrong token is refused, a missing one is not.
verifyTokenMissingPasses(x) ==
    LET y == Enter(x, "verifyToken")
        path == y.req.path
    IN
    IF y.req.method = "OPTIONS" THEN y
    ELSE IF BadPathShape(path) THEN Stop(httpError(y, "Not Found", 404))
    ELSE IF path \notin DOMAIN paths THEN Stop(httpError(y, "Forbidden", 403))
    ELSE IF paths[path].token = "" THEN y
    ELSE IF y.req.token = "" THEN y
    ELSE IF y.req.token # paths[path].token
    THEN Stop(httpError(SetHeader(y, "WWW-Authenticate", siteTokenHeader), "Unauthorized", 401))
    ELSE y

\* A plausible slip: OPTIONS requests are not let through.
verifyTokenNoBypass(x) ==
    LET y == Enter(x, "verifyToken")
        path == y.req.path
    IN
    IF BadPathShape(path) THEN Stop(httpError(y, "Not Found", 404))
    ELSE IF path \notin DOMAIN paths THEN Stop(httpError(y, "Forbidden", 403))
    ELSE IF paths[path].token = "" THEN y
    ELSE IF y.req.token # paths[path].token
    THEN Stop(httpError(SetHeader(y, "WWW-Authenticate", siteTokenHeader), "Unauthorized", 401))
    ELSE y

\* verifyToken, lines 222-270.
verifyToken(x) ==
    LET y == Enter(x, "verifyToken")
        path == y.req.path
    IN
    IF y.req.method = "OPTIONS" THEN y
    ELSE IF BadPathShape(path) THEN Stop(httpError(y, "Not Found", 404))
    ELSE IF path \notin DOMAIN paths THEN Stop(httpError(y, "Forbidden", 403))
    ELSE IF paths[path].token = "" THEN y
    ELSE IF y.req.token = ""
    THEN Stop(httpError(SetHeader(y, "WWW-Authenticate", siteTokenHeader), "Unauthorized", 401))
    ELSE IF y.req.token # paths[path].token
    THEN Stop(httpError(SetHeader(y, "WWW-Authenticate", siteTokenHeader), "Unauthorized", 401))
    ELSE y

\* rateLimit, lines 274-282, and allow, line 56: up to the clock reading.
rateLimitKey(x, now) ==
    LET y == Enter(x, "rateLimit") IN
    IF ~y.hasSite THEN Stop(httpError(y, "Internal Server Error", 500))
    ELSE [y EXCEPT !.key = y.site \o "|" \o remoteIP(y.req), !.now = now]

\* A plausible slip: the return after the 429 is missing.
rateLimitAnswerNoReturn(x, ok) ==
    IF ~ok THEN httpError(x, "Too Many Requests", 429) ELSE x

\* rateLimit, lines 283-290: after allow(key) has answered.
rateLimitAnswer(x, ok) ==
    IF ~ok THEN Stop(httpError(x, "Too Many Requests", 429)) ELSE x

\* h.ServeHTTP(w, r) of each stage: the next stage runs unless this one
\* answered.
ThenPathContext(x) == IF x.go THEN pathContext(x) ELSE x

ThenCorsByPath(x) == IF x.go THEN corsByPath(x) ELSE x

ThenVerifyToken(x) == IF x.go THEN verifyToken(x) ELSE x

ThenRateLimit(x, now) == IF x.go THEN rateLimitKey(x, now) ELSE x

\* A plausible slip: verifyToken wraps corsByPath, so that the token is
\* checked before the Origin.
withMiddlewareTokenFirst(req, now) ==
    ThenRateLimit(
        ThenCorsByPath(ThenVerifyToken(ThenPathContext(
            requestID(Enter(Enter(NewExchange(req), "recoverer"), "maxBytes"))))),
        now)

\* withMiddleware, lines 51-67: the stages from the outermost inwards, up
\* to the limiter's critical section.  The body-size bound only wraps the
\* body; it is felt when the handler reads it.
withMiddleware(req, now) ==
    ThenRateLimit(
        ThenVerifyToken(ThenCorsByPath(ThenPathContext(
            requestID(Enter(Enter(NewExchange(req), "recoverer"), "maxBytes"))))),
        now)

\* Health, handlers/health.go.
Health(x) == Write(WriteHeader(Enter(x, "Health"), 200), "ok")

\* The names package config gives the two token headers.
SiteTokenHeader == "config.SiteTokenHeader"

FormTokenHeader == "config.FormTokenHeader"

\* strings.Join
RECURSIVE Join(_, _)
Join(elems, sep) ==
    IF elems = <<>> THEN ""
    ELSE IF Len(elems) = 1 THEN elems[1]
    ELSE elems[1] \o sep \o Join(Tail(elems), sep)

DecimalDigits == <<"0", "1", "2", "3", "4", "5", "6", "7", "8", "9">>

\* strconv.Itoa of a number that is not negative.
RECURSIVE Itoa(_)
Itoa(n) ==
    IF n < 10 THEN DecimalDigits[n + 1]
    ELSE Itoa(n \div 10) \o DecimalDigits[(n % 10) + 1]

\* FormPreflight, lines 155-172.
FormPreflight(x, form) ==
    LET allowHeaders ==
            IF form.Token # ""
            THEN <<"Content-Type", SiteTokenHeader, FormTokenHeader>>
            ELSE <<"Content-Type", SiteTokenHeader>>
        a == SetHeader(Enter(x, "FormPreflight"), "Access-Control-Allow-Methods", "POST, OPTIONS")
        b == SetHeader(a, "Access-Control-Allow-Headers", Join(allowHeaders, ", "))
        c == SetHeader(b, "Access-Control-Max-Age", Itoa(form.AccessControlMaxAge))
    IN  WriteHeader(c, 200)

\* A plausible slip: the loop goes on to the next notifier after a failure.
RECURSIVE handleSESNotifiersGoOn(_, _, _)
handleSESNotifiersGoOn(x, tmpls, outs) ==
    IF tmpls = <<>> THEN x
    ELSE LET y == [x EXCEPT !.invoked = Append(@, Head(tmpls))]
             o == Head(outs)
             z == IF o \in {"subject", "intro", "object", "html", "text"} THEN y
                  ELSE IF o = "send" THEN [y EXCEPT !.sent = Append(@, Head(tmpls))]
                  ELSE [y EXCEPT !.sent = Append(@, Head(tmpls)),
                                 !.delivered = Append(@, Head(tmpls))]
         IN  handleSESNotifiersGoOn(z, Tail(tmpls), Tail(outs))

\* handleSESNotifiers, lines 597-738; x.go = FALSE stands for the error
\* returned.  outs[i] is what happens to the i-th notifier left.
RECURSIVE handleSESNotifiers(_, _, _)
handleSESNotifiers(x, tmpls, outs) ==
    IF tmpls = <<>> THEN x
    ELSE LET y == [x EXCEPT !.invoked = Append(@, Head(tmpls))]
             o == Head(outs)
         IN  IF o \in {"subject", "intro", "object"}
             THEN Stop(httpError(y, "Internal Server Error", 500))
             ELSE IF o \in {"html", "text"} THEN Stop(y)
             ELSE IF o = "send" THEN Stop([y EXCEPT !.sent = Append(@, Head(tmpls))])
             ELSE handleSESNotifiers([y EXCEPT !.sent = Append(@, Head(tmpls)),
                                               !.delivered = Append(@, Head(tmpls))],
                                     Tail(tmpls), Tail(outs))

\* A plausible slip: the validation error is logged but the handler goes on.
SubmitFormIgnoresError(x, form, body, verr, outs) ==
    LET y == [Enter(x, "SubmitForm") EXCEPT !.decoded = body.kind] IN
    IF body.kind \in {"malformed", "oversized"} THEN httpError(y, "Bad Request", 400)
    ELSE IF body.kind = "more" THEN httpError(y, "Bad Request", 400)
    ELSE LET v == [y EXCEPT !.payload = body.payload, !.verr = verr] IN
         IF verr.kind = "panic" THEN [v EXCEPT !.panicked = TRUE]
         ELSE LET n == handleSESNotifiers(v, form.SESNotifiers, outs) IN
              IF ~n.go THEN httpError(n, "Internal Server Error", 500)
              ELSE Write(WriteHeader(n, 200), "accepted")

\* A plausible slip: the error handleSESNotifiers returns is dropped.
SubmitFormAcceptsAnyway(x, form, body, verr, outs) ==
    LET y == [Enter(x, "SubmitForm") EXCEPT !.decoded = body.kind] IN
    IF body.kind \in {"malformed", "oversized"} THEN httpError(y, "Bad Request", 400)
    ELSE IF body.kind = "more" THEN httpError(y, "Bad Request", 400)
    ELSE LET v == [y EXCEPT !.payload = body.payload, !.verr = verr] IN
         IF verr.kind = "panic" THEN [v EXCEPT !.panicked = TRUE]
         ELSE IF verr.kind = "error" THEN httpError(v, "Bad Request", 400)
         ELSE Write(WriteHeader(handleSESNotifiers(v, form.SESNotifiers, outs), 200), "accepted")

\* A plausible slip: the message of the validation error is sent to the
\* client.
SubmitFormEchoesError(x, form, body, verr, outs) ==
    LET y == [Enter(x, "SubmitForm") EXCEPT !.decoded = body.kind] IN
    IF body.kind \in {"malformed", "oversized"} THEN httpError(y, "Bad Request", 400)
    ELSE IF body.kind = "more" THEN httpError(y, "Bad Request", 400)
    ELSE LET v == [y EXCEPT !.payload = body.payload, !.verr = verr] IN
         IF verr.kind = "panic" THEN [v EXCEPT !.panicked = TRUE]
         ELSE IF verr.kind = "error" THEN httpError(v, verr.msg, 400)
         ELSE LET n == handleSESNotifiers(v, form.SESNotifiers, outs) IN
              IF ~n.go THEN httpError(n, "Internal Server Error", 500)
              ELSE Write(WriteHeader(n, 200), "accepted")

\* SubmitForm, lines 181-299; verr is the result validatePayload returned.
SubmitForm(x, form, body, verr, outs) ==
    LET y == [Enter(x, "SubmitForm") EXCEPT !.decoded = body.kind] IN
    IF body.kind \in {"malformed", "oversized"} THEN httpError(y, "Bad Request", 400)
    ELSE IF body.kind = "more" THEN httpError(y, "Bad Request", 400)
    ELSE LET v == [y EXCEPT !.payload = body.payload, !.verr = verr] IN
         IF verr.kind = "panic" THEN [v EXCEPT !.panicked = TRUE]
         ELSE IF verr.kind = "error" THEN httpError(v, "Bad Request", 400)
         ELSE LET n == handleSESNotifiers(v, form.SESNotifiers, outs) IN
              IF ~n.go THEN httpError(n, "Internal Server Error", 500)
              ELSE Write(WriteHeader(n, 200), "accepted")

\* The form a path was registered for (the first form for any other path).
FormOf(path) ==
    IF path \in FormPaths THEN Sites[Owner(path)[1]].Forms[Owner(path)[2]] ELSE Sites[1].Forms[1]

\* The http.ServeMux of New, lines 50-68: "/health" for every method, each
\* form path for POST and OPTIONS; another method on a form path is 405.
ServeMux(x, body, verr, outs) ==
    LET y == Enter(x, "ServeMux") IN
    IF y.req.path = "/health" THEN Health(y)
    ELSE IF y.req.path \notin FormPaths THEN httpError(y, "404 page not found", 404)
    ELSE IF y.req.method = "POST" THEN SubmitForm(y, FormOf(y.req.path), body, verr, outs)
    ELSE IF y.req.method = "OPTIONS" THEN FormPreflight(y, FormOf(y.req.path))
    ELSE httpError(SetHeader(y, "Allow", "OPTIONS, POST"), "Method Not Allowed", 405)

\* A plausible slip: the deferred recover() is missing.
UnwindNoRecover(x) ==
    IF x.panicked THEN x
    ELSE IF x.reqid # "" THEN [x EXCEPT !.logged = x.rwstatus]
    ELSE x

\* The way back out: accessLogger (lines 105-129) writes its record when
\* the inner handler returns; a panic skips it and reaches recoverer
\* (lines 71-75), which answers 500.
Unwind(x) ==
    IF x.panicked
    THEN [httpError(x, "Internal Server Error", 500) EXCEPT !.panicked = FALSE]
    ELSE IF x.reqid # "" THEN [x EXCEPT !.logged = x.rwstatus]
    ELSE x

----------------------------------------------------------------------------
(* Spec: requests through the pipeline, one in flight at a time; requests  *)
(* meet in the limiter only, whose interleavings SpecLimiter explores.     *)

\* The number of requests a behaviour of Spec serves.
MaxRequests == 2

\* The last instant of the clock of the pipeline.
MaxPipeTime == 2

Init ==
    /\ limit \in 1..MaxLimit
    /\ RateLimitValid(limit)
    /\ window = Minute
    /\ newFixedWindowLimiter(limit, window) = ""
    /\ InitLimiterState
    /\ callers = [c \in Callers |-> IdleCaller]
    /\ InitValidateIdle
    /\ InitPipelineIdle
    /\ InitAuxIdle

\* A request arrives and runs through the stages until one answers it or
\* allow() has read the clock.
Receive(req, max) ==
    /\ pc \in {"idle", "done"}
    /\ nreq < max
    /\ nreq' = nreq + 1
    /\ LET x == withMiddleware(req, clock) IN
         /\ ex' = IF x.go THEN x ELSE Unwind(x)
         /\ pc' = IF x.go THEN "limiter" ELSE "done"
    /\ UNCHANGED <<auxVars, limiterVars, callers, valVars>>

\* The critical section of allow(key) and the answer of rateLimit.
RateLimit ==
    /\ pc = "limiter"
    /\ LimiterStep(ex.key, ex.now)
    /\ LET x == rateLimitAnswer(ex, allow(buckets, ex.key, ex.now).ok) IN
         /\ ex' = IF x.go THEN x ELSE Unwind(x)
         /\ pc' = IF x.go THEN "router" ELSE "done"
    /\ UNCHANGED <<auxVars, limit, window, clock, callers, valVars, nreq>>

\* Only SubmitForm reads the body and runs the notifiers.
ReadsBody(x) == x.req.method = "POST" /\ x.req.path \in FormPaths

AllSucceed == [i \in 1..2 |-> "ok"]

\* The router and the route handler, with the body the client sent, the
\* result validatePayload returns and the fate of each notifier.
Serve(body, outs) ==
    /\ pc = "router"
    /\ ReadsBody(ex) \/ (body = NoBody /\ outs = AllSucceed)
    /\ \E verr \in validatePayload(FormOf(ex.req.path).Fields, body.payload) :
           ex' = Unwind(ServeMux(ex, body, verr, outs))
    /\ pc' = "done"
    /\ UNCHANGED <<auxVars, limiterVars, callers, valVars, nreq>>

\* Time passes.
PipeTick ==
    /\ clock < MaxPipeTime
    /\ clock' = clock + 1
    /\ UNCHANGED <<auxVars, limit, window, buckets, callers, calls, last, valVars, pipeVars>>

Next ==
    \/ \E req \in Requests : Receive(req, MaxRequests)
    \/ RateLimit
    \/ \E body \in Bodies, outs \in Fates : Serve(body, outs)
    \/ PipeTick

Spec == Init /\ [][Next]_vars

\* The pipeline under the requests that spend the quota: one more request
\* than the largest limit, each submission well-formed and every notifier
\* succeeding.
ValidBody == [kind |-> "object", payload |-> [name |-> Str(<<"a">>)]]

NextQuota ==
    \/ \E req \in QuotaRequests : Receive(req, MaxLimit + 1)
    \/ RateLimit
    \/ \E body \in {NoBody, ValidBody} : Serve(body, AllSucceed)
    \/ PipeTick

SpecQuota == Init /\ [][NextQuota]_vars

----------------------------------------------------------------------------
(* SpecNotifierFields: Form.validateSMTPNotifierFields of                  *)
(* internal/config/form.go applied to bounded forms and notifier lists.    *)

\* The longest hiddenFields or fieldOrder list.
MaxListLen == 2

FieldNames == {"f", "g", "x"}

NameLists == UNION { [1..n -> FieldNames] : n \in 0..MaxListLen }

Range(list) == { list[i] : i \in 1..Len(list) }

\* Lines 249-260: the loop over smtp.HiddenFields.
HiddenFieldsError(fields, hidden) ==
    IF \E i \in 1..Len(hidden) : hidden[i] \notin fields THEN "unknown hidden field" ELSE ""

\* Lines 263-282: the loop over smtp.FieldOrder, seen being seenFields.
RECURSIVE FieldOrderError(_, _, _)
FieldOrderError(fields, seen, order) ==
    IF order = <<>> THEN ""
    ELSE IF Head(order) \notin fields THEN "unknown field in field order"
    ELSE IF Head(order) \in seen THEN "field in both field order and hidden fields"
    ELSE FieldOrderError(fields, seen \cup {Head(order)}, Tail(order))

\* A plausible slip: the loop that looks for a field that is neither
\* ordered nor hidden is left out.
validateSMTPNotifierFieldsNoCover(fields, hidden, order, hasOrder) ==
    IF HiddenFieldsError(fields, hidden) # "" THEN HiddenFieldsError(fields, hidden)
    ELSE IF ~hasOrder THEN ""
    ELSE FieldOrderError(fields, Range(hidden), order)

\* validateSMTPNotifierFields, lines 246-301: "" is the nil error; hasOrder
\* is smtp.FieldOrder != nil.
validateSMTPNotifierFields(fields, hidden, order, hasOrder) ==
    IF HiddenFieldsError(fields, hidden) # "" THEN HiddenFieldsError(fields, hidden)
    ELSE IF ~hasOrder THEN ""
    ELSE IF FieldOrderError(fields, Range(hidden), order) # ""
    THEN FieldOrderError(fields, Range(hidden), order)
    ELSE IF \E name \in fields : name \notin Range(hidden) \cup Range(order)
    THEN "field missing in field order and hidden fields"
    ELSE ""

\* A form declaring some of the fields f and g, and a notifier whose lists
\* name f, g or the undeclared x; a nil fieldOrder is the empty list with
\* hasOrder false.
InitNotifierFields ==
    /\ limit = 1
    /\ window = 1
    /\ InitLimiterState
    /\ callers = [c \in Callers |-> IdleCaller]
    /\ InitValidateIdle
    /\ InitPipelineIdle
    /\ \E fields \in SUBSET {"f", "g"}, hidden \in NameLists, order \in NameLists, hasOrder \in BOOLEAN :
           /\ ~hasOrder => order = <<>>
           /\ ncfg = [fields |-> fields, hidden |-> hidden, order |-> order, hasOrder |-> hasOrder]
    /\ nres = "none"
    /\ boot = NoBoot
    /\ rnd = NoRender
    /\ InitCompareIdle
    /\ InitMainIdle
    /\ InitBurstIdle

ValidateNotifierFields ==
    /\ nres = "none"
    /\ nres' = validateSMTPNotifierFields(ncfg.fields, ncfg.hidden, ncfg.order, ncfg.hasOrder)
    /\ UNCHANGED <<ncfg, boot, rnd, cmp, mn, adm, limiterVars, callers, valVars, pipeVars>>

NextNotifierFields == ValidateNotifierFields

SpecNotifierFields == InitNotifierFields /\ [][NextNotifierFields]_vars

----------------------------------------------------------------------------
(* SpecConfig: config.Load validates a bounded configuration and, when it  *)
(* is accepted, server.New builds the path registry and the mux from it.   *)

\* The longest list of sites, and the longest list of forms of a site.
MaxSites == 2

MaxForms == 2

\* An SMTP notifier of a form.
SMTPNotifier(from, order, hasOrder) ==
    [From |-> from, To |-> "to@a.example", Lang |-> "en", Subject |-> "s", Host |-> "h",
     Port |-> 25, Username |-> "u", UsernameEnvVar |-> "", Password |-> "p",
     PasswordEnvVar |-> "", FieldOrder |-> order, HiddenFields |-> <<>>, hasOrder |-> hasOrder]

\* Form.validateSMTPNotifiers, lines 203-244: "" is the nil error.
RECURSIVE validateSMTPNotifiers(_, _)
validateSMTPNotifiers(fields, notifiers) ==
    IF notifiers = <<>> THEN ""
    ELSE LET smtp == Head(notifiers) IN
         IF smtp.From = "" THEN "empty From address"
         ELSE IF smtp.To = "" THEN "empty To address"
         ELSE IF smtp.Lang = "" THEN "empty language"
         ELSE IF smtp.Subject = "" THEN "empty subject"
         ELSE IF smtp.Host = "" THEN "empty SMTP host"
         ELSE IF smtp.Port <= 0 THEN "invalid SMTP port"
         ELSE IF smtp.Username = "" /\ smtp.UsernameEnvVar = "" THEN "no SMTP username"
         ELSE IF smtp.Password = "" /\ smtp.PasswordEnvVar = "" THEN "no SMTP password"
         ELSE IF validateSMTPNotifierFields(fields, smtp.HiddenFields, smtp.FieldOrder,
                                            smtp.hasOrder) # ""
         THEN validateSMTPNotifierFields(fields, smtp.HiddenFields, smtp.FieldOrder, smtp.hasOrder)
         ELSE validateSMTPNotifiers(fields, Tail(notifiers))

\* Form.validate, lines 175-201: the errors it can return, {""} when it
\* accepts the form; the fields are a Go map, so any field out of range may
\* be the one met first.
validateForm(f) ==
    IF f.ID = "" THEN {"empty form ID"}
    ELSE IF f.AccessControlMaxAge < 0 THEN {"accessControlMaxAge must be at least 0"}
    ELSE IF \E k \in DOMAIN f.Fields : f.Fields[k].min < 0 \/ f.Fields[k].max < f.Fields[k].min
    THEN { IF f.Fields[k].min < 0 THEN "min field length" ELSE "max field length" :
             k \in { k \in DOMAIN f.Fields :
                       f.Fields[k].min < 0 \/ f.Fields[k].max < f.Fields[k].min } }
    ELSE {validateSMTPNotifiers(DOMAIN f.Fields, f.SMTPNotifiers)}

\* Config.validate, lines 124-129: the loop over the forms of a site.
RECURSIVE validateForms(_)
validateForms(forms) ==
    IF forms = <<>> THEN {""}
    ELSE IF validateForm(Head(forms)) # {""} THEN validateForm(Head(forms))
    ELSE validateForms(Tail(forms))

\* Config.validate, lines 99-130: the loop over the sites, seen being seenIDs.
RECURSIVE validateSites(_, _)
validateSites(sites, seen) ==
    IF sites = <<>> THEN {""}
    ELSE LET site == Head(sites) IN
         IF site.ID = "" THEN {"empty site ID"}
         ELSE IF site.ID = "_" THEN {"use of reserved site ID"}
         ELSE IF site.ID \in seen THEN {"duplicate site ID"}
         ELSE IF site.Token = "" THEN {"empty site token"}
         ELSE IF site.AllowedOrigins = {} THEN {"no allowed origins"}
         ELSE IF validateForms(site.Forms) # {""} THEN validateForms(site.Forms)
         ELSE validateSites(Tail(sites), seen \cup {site.ID})

\* Config.validate, lines 86-133.
validateConfig(c) ==
    IF c.ListenAddr = "" THEN {"empty listenAddress"}
    ELSE IF c.MaxBodyBytes <= 0 THEN {"maxBytes must be greater than zero"}
    ELSE IF ~RateLimitValid(c.PerIPSiteMinute) THEN {"perIpSiteMinute must be greater than zero"}
    ELSE validateSites(c.Sites, {})

\* New, line 60.
formPath(site, form) == apiPrefix \o "/forms/" \o site.ID \o "/" \o form.ID

\* paths[path] = info
Assign(m, path, info) ==
    [p \in (DOMAIN m) \cup {path} |-> IF p = path THEN info ELSE m[p]]

\* New, lines 59-68: the loop over the forms of one site.  mux.Handle
\* panics when the pattern is registered already.
RECURSIVE RegisterForms(_, _, _)
RegisterForms(site, forms, st) ==
    IF st.panicked \/ forms = <<>> THEN st
    ELSE LET path == formPath(site, Head(forms))
             info == [site |-> site.ID, allowedOrigins |-> site.AllowedOrigins]
         IN  IF ("POST " \o path) \in st.patterns
             THEN [st EXCEPT !.paths = Assign(st.paths, path, info), !.panicked = TRUE]
             ELSE RegisterForms(site, Tail(forms),
                                [st EXCEPT !.paths = Assign(st.paths, path, info),
                                           !.patterns = @ \cup {"POST " \o path, "OPTIONS " \o path},
                                           !.owners = @ \cup {<<path, site.ID, Head(forms).ID>>}])

\* New, lines 56-69: the loop over the sites.
RECURSIVE RegisterSites(_, _)
RegisterSites(sites, st) ==
    IF st.panicked \/ sites = <<>> THEN st
    ELSE RegisterSites(Tail(sites), RegisterForms(Head(sites), Head(sites).Forms, st))

\* New, lines 49-69: the registry and the mux after the loops; owners is a
\* history of the (path, site, form) triples registered.
New(c) ==
    RegisterSites(c.Sites,
                  [paths |-> Assign(<<>>, "/health", [site |-> "_", allowedOrigins |-> {"*"}]),
                   patterns |-> {"/health"}, owners |-> {}, panicked |-> FALSE])

GoodForm(id) ==
    [ID |-> id, AccessControlMaxAge |-> 0, Fields |-> ContactFields, SMTPNotifiers |-> <<>>]

\* Forms with one feature Form.validate looks at, and one with a notifier
\* it accepts.
OddForms ==
    { GoodForm(""),
      [GoodForm("f") EXCEPT !.AccessControlMaxAge = -1],
      [GoodForm("f") EXCEPT !.Fields = [name |-> Field("string", TRUE, <<-1, 0>>, <<>>)]],
      [GoodForm("f") EXCEPT !.Fields = [name |-> Field("string", TRUE, <<2, 1>>, <<>>)]],
      [GoodForm("f") EXCEPT !.SMTPNotifiers = <<SMTPNotifier("", <<>>, FALSE)>>],
      [GoodForm("f") EXCEPT !.SMTPNotifiers = <<SMTPNotifier("from@a.example", <<>>, TRUE)>>],
      [GoodForm("f") EXCEPT !.SMTPNotifiers = <<SMTPNotifier("from@a.example", <<"name">>, TRUE)>>] }

FormIDLists == UNION { [1..n -> {"f", "g"}] : n \in 0..MaxForms }

SiteIDs == {"", "_", "a", "b"}

SiteConfig(id, token, origins, forms) ==
    [ID |-> id, Token |-> token, AllowedOrigins |-> origins, Forms |-> forms]

SiteConfigs ==
    { SiteConfig(id, "t", {"*"}, [i \in 1..Len(ids) |-> GoodForm(ids[i])]) :
        id \in SiteIDs, ids \in FormIDLists }
    \cup { SiteConfig("a", "t", {"*"}, <<f>>) : f \in OddForms }
    \cup { SiteConfig("a", "", {"*"}, <<>>), SiteConfig("a", "t", {}, <<>>) }

SiteLists == UNION { [1..n -> SiteConfigs] : n \in 0..MaxSites }

Config(addr, bytes, rate, sites) ==
    [ListenAddr |-> addr, MaxBodyBytes |-> bytes, PerIPSiteMinute |-> rate, Sites |-> sites]

Configs ==
    { Config(":8080", 1, 1, sites) : sites \in SiteLists }
    \cup { Config(addr, bytes, rate, <<SiteConfig("a", "t", {"*"}, <<GoodForm("f")>>)>>) :
             addr \in {"", ":8080"}, bytes \in {0, 1}, rate \in {0, 1} }

InitConfig ==
    /\ limit = 1
    /\ window = 1
    /\ InitLimiterState
    /\ callers = [c \in Callers |-> IdleCaller]
    /\ InitValidateIdle
    /\ InitPipelineIdle
    /\ ncfg = NoNotifier
    /\ nres = "none"
    /\ rnd = NoRender
    /\ \E c \in Configs : boot = [NoBoot EXCEPT !.pc = "load", !.cfg = c]
    /\ InitCompareIdle
    /\ InitMainIdle
    /\ InitBurstIdle

bootOthers == <<ncfg, nres, rnd, cmp, mn, adm, limiterVars, callers, valVars, pipeVars>>

\* config.Load, lines 78-83: the configuration is validated; main exits on
\* an error (log.Fatal).
Load ==
    /\ boot.pc = "load"
    /\ \E err \in validateConfig(boot.cfg) :
           boot' = [boot EXCEPT !.err = err, !.pc = IF err = "" THEN "new" ELSE "exit"]
    /\ UNCHANGED bootOthers

\* server.New on the configuration Load returned.
NewServer ==
    /\ boot.pc = "new"
    /\ LET st == New(boot.cfg) IN
         boot' = [boot EXCEPT !.paths = st.paths, !.patterns = st.patterns,
                              !.panicked = st.panicked,
                              !.owners = st.owners,
                              !.pc = IF st.panicked THEN "exit" ELSE "run"]
    /\ UNCHANGED bootOthers

NextConfig == Load \/ NewServer

SpecConfig == InitConfig /\ [][NextConfig]_vars

----------------------------------------------------------------------------
(* SpecRender: the HTML and text templates of handlers/form.go executed    *)
(* for one notifier of an accepted form and one validated payload.  A      *)
(* body is modelled by the sequence of the fields it shows, each with the  *)
(* heading it is printed under.                                            *)

\* text/template visits the keys of a map in sorted order.
KeyRank == [f |-> 1, g |-> 2, x |-> 3]

RECURSIVE SortedKeys(_)
SortedKeys(keys) ==
    IF keys = {} THEN <<>>
    ELSE LET k == CHOOSE k \in keys : \A j \in keys : KeyRank[k] <= KeyRank[j]
         IN  <<k>> \o SortedKeys(keys \ {k})

\* The heading of a field, lines 60 and 80, 109, 114, 125 and 130: index
\* gives the zero FormField for a key that is not declared.
Heading(fields, key) ==
    IF key \in DOMAIN fields /\ fields[key].DisplayName # "" THEN fields[key].DisplayName
    ELSE key

Shown(fields, key) == [key |-> key, label |-> Heading(fields, key)]

\* The keys of the list that are not in hidden, lines 76-78 and 119-121.
RECURSIVE SkipHidden(_, _)
SkipHidden(keys, hidden) ==
    IF keys = <<>> THEN <<>>
    ELSE IF Head(keys) \in Range(hidden) THEN SkipHidden(Tail(keys), hidden)
    ELSE <<Head(keys)>> \o SkipHidden(Tail(keys), hidden)

\* A plausible slip: the branch that ranges over the payload shows every
\* key, hidden or not.
htmlTemplateShowsHidden(data) ==
    LET keys == IF Len(data.order) > 0 THEN data.order ELSE SortedKeys(DOMAIN data.payload)
    IN  [i \in 1..Len(keys) |-> Shown(data.fields, keys[i])]

\* htmlTemplate, lines 53-94.
htmlTemplate(data) ==
    LET keys == IF Len(data.order) > 0 THEN data.order
                ELSE SkipHidden(SortedKeys(DOMAIN data.payload), data.hidden)
    IN  [i \in 1..Len(keys) |-> Shown(data.fields, keys[i])]

\* textTemplate, lines 99-134.
textTemplate(data) ==
    LET keys == IF Len(data.order) > 0 THEN data.order
                ELSE SkipHidden(SortedKeys(DOMAIN data.payload), data.hidden)
    IN  [i \in 1..Len(keys) |-> Shown(data.fields, keys[i])]

DisplayNames == {"", "F"}

\* The forms: each of f and g is declared or not, required or not, with a
\* display name or without.
RenderForms ==
    UNION { [names -> { [DisplayName |-> d, required |-> r] : d \in DisplayNames, r \in BOOLEAN }] :
              names \in SUBSET {"f", "g"} }

\* A notification of a form whose notifier lists validateSMTPNotifierFields
\* accepts, with a payload validatePayload accepts: declared keys only, the
\* required ones among them.
InitRender ==
    /\ limit = 1
    /\ window = 1
    /\ InitLimiterState
    /\ callers = [c \in Callers |-> IdleCaller]
    /\ InitValidateIdle
    /\ InitPipelineIdle
    /\ ncfg = NoNotifier
    /\ nres = "none"
    /\ boot = NoBoot
    /\ \E fields \in RenderForms, hidden \in NameLists, order \in NameLists, hasOrder \in BOOLEAN,
          keys \in SUBSET {"f", "g"} :
           /\ ~hasOrder => order = <<>>
           /\ validateSMTPNotifierFields(DOMAIN fields, hidden, order, hasOrder) = ""
           /\ keys \subseteq DOMAIN fields
           /\ \A k \in DOMAIN fields : fields[k].required => k \in keys
           /\ rnd = [NoRender EXCEPT !.pc = "render", !.fields = fields,
                                     !.payload = [k \in keys |-> "v"],
                                     !.hidden = hidden, !.order = order]
    /\ InitCompareIdle
    /\ InitMainIdle
    /\ InitBurstIdle

\* handleSESNotifiers, lines 605-610 and 690-720: the two bodies of one
\* notifier.
Render ==
    /\ rnd.pc = "render"
    /\ LET data == [payload |-> rnd.payload, fields |-> rnd.fields,
                    order |-> rnd.order, hidden |-> rnd.hidden]
       IN  rnd' = [rnd EXCEPT !.pc = "done", !.html = htmlTemplate(data),
                              !.text = textTemplate(data)]
    /\ UNCHANGED <<ncfg, nres, boot, cmp, mn, adm, limiterVars, callers, valVars, pipeVars>>

NextRender == Render

SpecRender == InitRender /\ [][NextRender]_vars

----------------------------------------------------------------------------
(* SpecCompare: two limiters built by newFixedWindowLimiter, the second    *)
(* with a limit and a window at least those of the first, are given the    *)
(* same calls at the same instants.                                        *)

LimiterArgs == { [limit |-> l, window |-> w] : l \in (-1)..MaxLimit, w \in (-1)..MaxWindow }

InitCompare ==
    /\ limit = 1
    /\ window = 1
    /\ InitLimiterState
    /\ callers = [c \in Callers |-> IdleCaller]
    /\ InitValidateIdle
    /\ InitPipelineIdle
    /\ InitConfigIdle
    /\ InitMainIdle
    /\ InitBurstIdle
    /\ \E a \in LimiterArgs, b \in LimiterArgs :
           /\ a.limit <= b.limit
           /\ a.window <= b.window
           /\ cmp = [NoCompare EXCEPT !.phase = "args", !.a = a, !.b = b]

\* newFixedWindowLimiter(limit, window), for each of the two.
CompareConstruct ==
    /\ cmp.phase = "args"
    /\ cmp' = [cmp EXCEPT !.phase = "built",
                          !.errA = newFixedWindowLimiter(cmp.a.limit, cmp.a.window),
                          !.errB = newFixedWindowLimiter(cmp.b.limit, cmp.b.window)]
    /\ UNCHANGED <<configVars, mn, adm, limiterVars, callers, valVars, pipeVars>>

\* allow(key) on both limiters at the same instant.
CompareAllow(key) ==
    /\ cmp.phase = "built"
    /\ cmp.errA = "" /\ cmp.errB = ""
    /\ LET ra == allowWith(cmp.a, cmp.bsA, key, clock)
           rb == allowWith(cmp.b, cmp.bsB, key, clock)
       IN  cmp' = [cmp EXCEPT !.bsA = ra.buckets, !.bsB = rb.buckets, !.called = TRUE,
                              !.okA = ra.ok, !.okB = rb.ok]
    /\ UNCHANGED <<configVars, mn, adm, limiterVars, callers, valVars, pipeVars>>

\* Time passes.
CompareTick ==
    /\ cmp.phase = "built"
    /\ clock < MaxTime
    /\ clock' = clock + 1
    /\ UNCHANGED <<auxVars, limit, window, buckets, callers, calls, last, valVars, pipeVars>>

NextCompare ==
    \/ CompareConstruct
    \/ \E key \in LimiterKeys : CompareAllow(key)
    \/ CompareTick

SpecCompare == InitCompare /\ [][NextCompare]_vars

----------------------------------------------------------------------------
(* SpecMain: main from the start of the server goroutine to the end of the *)
(* process.  The goroutine runs Server.Run and sends its result on errCh;  *)
(* the runtime relays SIGINT and SIGTERM on sigCh once signal.Notify has   *)
(* registered it; main waits in the select for either, calls               *)
(* Server.Shutdown and leaves.  A signal that arrives before the           *)
(* registration never reaches the program and is no event of the model.   *)

\* The stop signals relayed on sigCh.
Signals == {"SIGINT", "SIGTERM"}

\* Signals the runtime relays in one run.
MaxSignals == 2

\* make(chan error, 1)
ErrChCap == 1

\* make(chan os.Signal, 1)
SigChCap == 1

\* Everything but the process.
mainOthers == <<configVars, cmp, adm, limiterVars, callers, valVars, pipeVars>>

InitMain ==
    /\ limit = 1
    /\ window = 1
    /\ InitLimiterState
    /\ callers = [c \in Callers |-> IdleCaller]
    /\ InitValidateIdle
    /\ InitPipelineIdle
    /\ InitConfigIdle
    /\ InitCompareIdle
    /\ InitBurstIdle
    /\ mn = [NoMain EXCEPT !.pc = "go"]

\* go func() { errCh <- srv.Run() }()
MainGo ==
    /\ mn.pc = "go"
    /\ mn' = [mn EXCEPT !.pc = "notify", !.srv = "run"]
    /\ UNCHANGED mainOthers

\* signal.Notify(sigCh, syscall.SIGINT, syscall.SIGTERM)
MainNotify ==
    /\ mn.pc = "notify"
    /\ mn' = [mn EXCEPT !.pc = "select", !.registered = TRUE]
    /\ UNCHANGED mainOthers

\* The runtime relays a signal: a send that does not block, the signal is
\* dropped when sigCh is full.
Signal(sig) ==
    /\ mn.pc \notin {"none", "exited"}
    /\ mn.registered
    /\ mn.nsig < MaxSignals
    /\ mn' = [mn EXCEPT !.nsig = @ + 1,
                        !.fired = @ \cup {"signal"},
                        !.sigCh = IF Len(@) < SigChCap THEN Append(@, sig) ELSE @]
    /\ UNCHANGED mainOthers

\* Server.Run: ListenAndServe returns, with http.ErrServerClosed once
\* Shutdown was called and with the listener's error before; Run wraps
\* either, so that here it always returns an error.
RunReturns ==
    /\ mn.pc \notin {"none", "exited"}
    /\ mn.srv = "run"
    /\ mn' = [mn EXCEPT !.srv = IF mn.closed THEN "send closed" ELSE "send failed",
                        !.fired = @ \cup {"error"}]
    /\ UNCHANGED mainOthers

\* A variant of the send, on an errCh made without a buffer: the send
\* proceeds only while main waits in the select, which receives the result.
SendResultUnbuffered ==
    /\ mn.pc = "select"
    /\ mn.srv \in {"send closed", "send failed"}
    /\ mn' = [mn EXCEPT !.srv = "done", !.pc = "shutdown", !.trigger = "error"]
    /\ UNCHANGED mainOthers

\* errCh <- (the result of Run): proceeds while errCh has room.
SendResult ==
    /\ mn.pc \notin {"none", "exited"}
    /\ mn.srv \in {"send closed", "send failed"}
    /\ Len(mn.errCh) < ErrChCap
    /\ mn' = [mn EXCEPT !.srv = "done",
                        !.errCh = Append(@, IF mn.srv = "send closed" THEN "closed" ELSE "failed")]
    /\ UNCHANGED mainOthers

\* select, case sig := <-sigCh
SelectSignal ==
    /\ mn.pc = "select"
    /\ mn.sigCh # <<>>
    /\ mn' = [mn EXCEPT !.pc = "shutdown", !.trigger = "signal", !.sigCh = Tail(@)]
    /\ UNCHANGED mainOthers

\* select, case err = <-errCh
SelectError ==
    /\ mn.pc = "select"
    /\ mn.errCh # <<>>
    /\ mn' = [mn EXCEPT !.pc = "shutdown", !.trigger = "error", !.errCh = Tail(@)]
    /\ UNCHANGED mainOthers

\* err = srv.Shutdown(ctx) under the timeout of ten seconds: it returns nil,
\* or an error when the timeout ends the wait for the open connections.
Shutdown(failed) ==
    /\ mn.pc = "shutdown"
    /\ mn' = [mn EXCEPT !.pc = IF failed THEN "fatal" ELSE "return",
                        !.closed = TRUE,
                        !.shutdowns = @ + 1,
                        !.serr = IF failed THEN "error" ELSE "nil"]
    /\ UNCHANGED mainOthers

\* log.Fatal(err) ends the process with code 1; the return from main ends
\* it with code 0.  Either ends the server goroutine with it.
Exit ==
    /\ mn.pc \in {"fatal", "return"}
    /\ mn' = [mn EXCEPT !.pc = "exited", !.code = IF mn.pc = "fatal" THEN 1 ELSE 0]
    /\ UNCHANGED mainOthers

NextMain ==
    \/ MainGo
    \/ MainNotify
    \/ \E sig \in Signals : Signal(sig)
    \/ RunReturns
    \/ SendResult
    \/ SelectSignal
    \/ SelectError
    \/ \E failed \in BOOLEAN : Shutdown(failed)
    \/ Exit

SpecMain == InitMain /\ [][NextMain]_vars

\* The scheduler lets every goroutine that can take a step take one: main
\* on its way to the select, in the select, in Shutdown and at its end, the
\* server goroutine at its send.
FairMain ==
    /\ SpecMain
    /\ WF_vars(MainGo \/ MainNotify)
    /\ WF_vars(SelectSignal \/ SelectError)
    /\ WF_vars(\E failed \in BOOLEAN : Shutdown(failed))
    /\ WF_vars(Exit)
    /\ WF_vars(SendResult)

----------------------------------------------------------------------------
(* SpecBurst: concurrent callers of allow() for one key, with a record of  *)
(* every admitted call: the clock value it read, the instant it left the   *)
(* critical section and the bucket that admitted it, named by its resetAt. *)

BurstKey == "A"

\* The last instant of the clock of SpecBurst.
MaxBurstTime == 2

InitBurst ==
    /\ limit \in 0..MaxLimit
    /\ window \in 0..MaxWindow
    /\ newFixedWindowLimiter(limit, window) = ""
    /\ InitLimiterState
    /\ callers = [c \in Callers |-> IdleCaller]
    /\ InitValidateIdle
    /\ InitPipelineIdle
    /\ InitConfigIdle
    /\ InitCompareIdle
    /\ InitMainIdle
    /\ adm = <<>>

\* allow(), lines 58-78: the critical section, atomic under the mutex.
BurstAllow(c) ==
    /\ callers[c].pc = "read"
    /\ LimiterStep(callers[c].key, callers[c].now)
    /\ LET r == allow(buckets, callers[c].key, callers[c].now) IN
         adm' = IF r.ok
                THEN Append(adm, [now |-> callers[c].now, done |-> clock,
                                  bucket |-> r.buckets[callers[c].key].resetAt])
                ELSE adm
    /\ callers' = [callers EXCEPT ![c] = IdleCaller]
    /\ UNCHANGED <<configVars, cmp, mn, limit, window, clock, valVars, pipeVars>>

\* Time passes.
BurstTick ==
    /\ clock < MaxBurstTime
    /\ clock' = clock + 1
    /\ UNCHANGED <<auxVars, limit, window, buckets, callers, calls, last, valVars, pipeVars>>

NextBurst ==
    \/ \E c \in Callers : ReadClock(c, BurstKey)
    \/ \E c \in Callers : BurstAllow(c)
    \/ BurstTick

SpecBurst == InitBurst /\ [][NextBurst]_vars

----------------------------------------------------------------------------
(* Claims about the limiter.                                               *)

\* C1: for every limit >= 0 and every key with no live bucket, the first
\* `limit` calls of allow(key) within one window return true and the
\* (limit+1)-th call returns false: the n-th call answered in a bucket's
\* lifetime is admitted exactly when n <= limit.
C1_FirstLimitThenDeny ==
    last.key # "" => (last.ok <=> last.n <= limit)

\* C2: a call of allow(key) that finds the key's bucket exhausted
\* (count >= limit) at an instant later than its resetAt returns true and
\* leaves the bucket with count = 1 and resetAt = now + window.
C2_ExpiredBucketReplaced ==
    (/\ last.key # ""
     /\ last.had
     /\ last.pre.count >= limit
     /\ last.now > last.pre.resetAt)
    => (/\ last.ok
        /\ buckets[last.key] = [count |-> 1, resetAt |-> last.now + window])

C2_Witness ==
    /\ last.key # ""
    /\ last.had
    /\ limit = 2
    /\ last.pre.count = 2
    /\ last.now > last.pre.resetAt
    /\ last.ok

\* C3: under every interleaving of concurrent allow calls, a call for one
\* key leaves the bucket of every other key as it was, and the answer of a
\* call for key A is decided by the calls made for key A alone: it is
\* admitted exactly when it opens a bucket of A or is at most the limit-th
\* call answered in the lifetime of A's bucket.
C3_KeysIndependent ==
    [][ (last' # last \/ buckets' # buckets) =>
            /\ \A k \in DOMAIN buckets :
                   k # last'.key =>
                       (k \in DOMAIN buckets' /\ buckets'[k] = buckets[k])
            /\ DOMAIN buckets' \subseteq (DOMAIN buckets) \cup {last'.key}
            /\ last'.ok <=> (last'.n = 1 \/ last'.n <= limit) ]_vars

C3_Witness ==
    /\ last.key = "B"
    /\ "A" \in DOMAIN buckets
    /\ "B" \in DOMAIN buckets
    /\ buckets["A"].count = 2
    /\ buckets["B"].count = 1
    /\ callers["c1"].pc = "read"
    /\ callers["c1"].key = "A"

\* C18: newFixedWindowLimiter returns a configuration error and no limiter
\* if and only if limit < 0 or window < 0; a limiter built with limit = 0
\* or window = 0 admits no call that a limiter with a larger limit or
\* window denies on the same timed sequence of calls.
C18_ZeroIsMostRestrictive ==
    /\ cmp.phase = "built" =>
           /\ cmp.errA # "" <=> (cmp.a.limit < 0 \/ cmp.a.window < 0)
           /\ cmp.errB # "" <=> (cmp.b.limit < 0 \/ cmp.b.window < 0)
    /\ (cmp.called /\ (cmp.a.limit = 0 \/ cmp.a.window = 0)) => (cmp.okA => cmp.okB)

\* What remains of C18: the construction half, and the comparison of two
\* limiters of the same window, where the smaller limit admits no call the
\* larger limit denies.
C18_SmallerLimitSameWindow ==
    /\ cmp.phase = "built" =>
           /\ cmp.errA # "" <=> (cmp.a.limit < 0 \/ cmp.a.window < 0)
           /\ cmp.errB # "" <=> (cmp.b.limit < 0 \/ cmp.b.window < 0)
    /\ (cmp.called /\ cmp.a.window = cmp.b.window) => (cmp.okA => cmp.okB)

\* A caller has left the critical section of allow() in this step.
Answered == \E c \in Callers : callers[c].pc = "read" /\ callers'[c].pc = "idle"

\* The call found a bucket of its key whose window had not ended at the
\* instant the call read.
FoundLive(call) == call.had /\ ~After(call.now, call.pre.resetAt)

\* C27: a call of allow(key) that returns false leaves the whole limiter
\* state unchanged, the count and resetAt of the key and every other
\* bucket; a call that returns true within a live window increments the
\* count of that key alone by exactly 1 and leaves its resetAt unchanged.
C27_DenyChangesNothing ==
    [][Answered =>
           /\ ~last'.ok => buckets' = buckets
           /\ (last'.ok /\ FoundLive(last')) =>
                  /\ DOMAIN buckets' = DOMAIN buckets
                  /\ buckets'[last'.key].count = buckets[last'.key].count + 1
                  /\ buckets'[last'.key].resetAt = buckets[last'.key].resetAt
                  /\ \A k \in DOMAIN buckets : k # last'.key => buckets'[k] = buckets[k]]_vars

\* A call for A was denied while B has a bucket too, and left A's bucket
\* full as it found it.
C27_Witness ==
    /\ limit = 2
    /\ last.key = "A"
    /\ ~last.ok
    /\ FoundLive(last)
    /\ buckets["A"] = last.pre
    /\ buckets["A"].count = 2
    /\ "B" \in DOMAIN buckets

\* The admitted calls that read the clock and returned within [from, to].
AdmittedWithin(from, to) ==
    Cardinality({ i \in 1..Len(adm) : from <= adm[i].now /\ adm[i].done <= to })

\* The calls the bucket with this resetAt admitted.
AdmittedBy(resetAt) == Cardinality({ i \in 1..Len(adm) : adm[i].bucket = resetAt })

AtLeastOne(n) == IF n < 1 THEN 1 ELSE n

\* C29: under any interleaving of concurrent allow calls for the same key,
\* where each call reads the clock before it acquires the mutex, no update
\* is lost: the count of the bucket is the number of calls admitted
\* against it, that number never exceeds max(1, limit), and the resetAt of
\* the key never decreases.
C29_NoLostUpdate ==
    /\ [](/\ \A i \in 1..Len(adm) : AdmittedBy(adm[i].bucket) <= AtLeastOne(limit)
          /\ BurstKey \in DOMAIN buckets =>
                 buckets[BurstKey].count = AdmittedBy(buckets[BurstKey].resetAt))
    /\ [][(BurstKey \in DOMAIN buckets) =>
              (/\ BurstKey \in DOMAIN buckets'
               /\ buckets'[BurstKey].resetAt >= buckets[BurstKey].resetAt)]_vars

\* A call that read the clock at 0 waited in front of the mutex while
\* another call opened the bucket of a later window, and was then admitted
\* as the second and last call of that bucket.
C29_Witness ==
    /\ limit = 2
    /\ window = 1
    /\ Len(adm) >= 2
    /\ adm[Len(adm)].now = 0
    /\ adm[Len(adm)].done >= 2
    /\ adm[Len(adm)].bucket = 3
    /\ buckets[BurstKey] = [count |-> 2, resetAt |-> 3]

\* C30: in every reachable limiter state each existing bucket has
\* 1 <= count <= max(1, limit); a bucket once created for a key is never
\* removed, so the set of keys in the bucket map only grows over any
\* sequence of allow calls.
C30_BucketsBoundedNeverRemoved ==
    /\ [](\A k \in DOMAIN buckets :
              /\ 1 <= buckets[k].count
              /\ buckets[k].count <= AtLeastOne(limit))
    /\ [][(DOMAIN buckets) \subseteq (DOMAIN buckets')]_vars

\* The window of A's bucket ended two ticks ago and the bucket is still in
\* the map, while B was given a bucket and filled it.
C30_Witness ==
    /\ limit = 2
    /\ "A" \in DOMAIN buckets
    /\ clock > buckets["A"].resetAt + 1
    /\ last.key = "B"
    /\ "B" \in DOMAIN buckets
    /\ buckets["B"].count = 2
    /\ ~After(clock, buckets["B"].resetAt)

----------------------------------------------------------------------------
(* Claims about the request pipeline.                                      *)

\* No element occurs twice in the list.
NoRepeat(list) == \A i, j \in 1..Len(list) : list[i] = list[j] => i = j

RouteHandlers == {"Health", "FormPreflight", "SubmitForm"}

\* The request entered the named stage or handler.
Reached(x, stage) == \E i \in 1..Len(x.trail) : x.trail[i] = stage

HandlerReached(x) == \E i \in 1..Len(x.trail) : x.trail[i] \in RouteHandlers

\* The limiter has answered the request at hand: the last call of allow()
\* is the call made for it.
Counted(x) == pc \in {"router", "done"} /\ x.key # ""

\* The tenant of the path requires a token and the request does not carry it.
Unauthenticated(req) ==
    /\ req.path \in DOMAIN paths
    /\ PathToken(req.path) # ""
    /\ req.token # PathToken(req.path)

OriginAllowed(req) ==
    \/ "*" \in paths[req.path].allowedOrigins
    \/ req.origin \in paths[req.path].allowedOrigins

\* C4 as stated: with rate limit L and a one-minute window, of the requests
\* of one client IP to the forms of one site that pass path resolution,
\* CORS and token verification within one window, the first L reach the
\* route handler and the next is answered 429 without reaching it; the
\* requests of another site or another client IP are counted in another
\* bucket: the key of a request is its site and its IP, and the request
\* that is the n-th answered in the lifetime of the bucket of its key
\* reaches the route handler exactly when n <= L.
C4_FirstLReachHandler ==
    Counted(ex) =>
        /\ window = Minute
        /\ ex.key = ex.site \o "|" \o remoteIP(ex.req)
        /\ last.key = ex.key
        /\ last.n <= limit =>
               /\ pc = "router" => ex.go
               /\ ex.status # 429
               /\ pc = "done" => HandlerReached(ex)
        /\ last.n > limit => (pc = "done" /\ ex.status = 429 /\ ~HandlerReached(ex))

\* C4, amended: the first L are handed to the router, which runs the route
\* handler of the path if it has one for the method of the request and
\* answers 405 itself if not; the next is answered 429 and reaches neither
\* the router nor a route handler.
C4_QuotaPerSiteAndIP ==
    Counted(ex) =>
        /\ window = Minute
        /\ ex.key = ex.site \o "|" \o remoteIP(ex.req)
        /\ last.key = ex.key
        /\ last.n <= limit =>
               /\ pc = "router" => ex.go
               /\ ex.status # 429
               /\ pc = "done" =>
                      /\ Reached(ex, "ServeMux")
                      /\ HandlerReached(ex) <=>
                             (ex.req.path = "/health" \/ ex.req.method \in {"POST", "OPTIONS"})
                      /\ ~HandlerReached(ex) => ex.status = 405
        /\ last.n > limit =>
               /\ pc = "done" /\ ex.status = 429
               /\ ~Reached(ex, "ServeMux") /\ ~HandlerReached(ex)

C4_Witness ==
    /\ limit = 1
    /\ pc = "done"
    /\ ex.key = "a|10.0.0.1"
    /\ ex.req.path = "/v1/forms/a/f2"
    /\ last.n = 2
    /\ ex.status = 429
    /\ "a|10.0.0.2" \in DOMAIN buckets
    /\ buckets["a|10.0.0.2"].count = 1
    /\ ~After(ex.now, buckets["a|10.0.0.2"].resetAt)

\* C5 as stated: every request other than OPTIONS to a path whose tenant
\* requires a token, whose token header is absent or differs from the
\* required token, is answered 401 with a WWW-Authenticate header naming
\* the site-token header; the route handler is not run and no notifier is
\* invoked.
C5_EveryUnauthenticatedIs401 ==
    (pc # "idle" /\ ex.req.method # "OPTIONS" /\ Unauthenticated(ex.req)) =>
        /\ ex.status = 401
        /\ "WWW-Authenticate" \in DOMAIN ex.header
        /\ ex.header["WWW-Authenticate"] = siteTokenHeader
        /\ ~HandlerReached(ex)
        /\ ex.invoked = <<>>

\* C5, amended: the same for every such request that passes request
\* identification, path resolution and CORS enforcement, that is, reaches
\* token verification; a request refused by an earlier stage is answered
\* by that stage, and no handler is run or notifier invoked either way.
C5_UnauthenticatedAtTokenCheckIs401 ==
    (pc # "idle" /\ ex.req.method # "OPTIONS" /\ Unauthenticated(ex.req)) =>
        /\ ~HandlerReached(ex)
        /\ ex.invoked = <<>>
        /\ Reached(ex, "verifyToken") =>
               /\ ex.status = 401
               /\ "WWW-Authenticate" \in DOMAIN ex.header
               /\ ex.header["WWW-Authenticate"] = siteTokenHeader
        /\ ~Reached(ex, "verifyToken") => ex.status \in {403, 404, 500}

C5_Witness ==
    /\ pc = "done"
    /\ ex.req.method = "POST"
    /\ ex.req.path = "/v1/forms/a/f1"
    /\ ex.req.origin = "https://a.example"
    /\ ex.req.token = ""
    /\ Reached(ex, "verifyToken")
    /\ ex.status = 401

\* C6: unauthenticated traffic never consumes quota: a request of any
\* method to a path whose tenant requires a token, which does not carry
\* the valid token, creates or changes no limiter bucket.
C6_UnauthenticatedSpendsNoQuota ==
    (Counted(ex) /\ Unauthenticated(ex.req)) =>
        /\ ~last.ok
        /\ last.had
        /\ buckets[ex.key] = last.pre

\* C7 as stated: for a POST to a registered form path with a valid token,
\* an allowed Origin, quota available and a payload that passes
\* validation, every notifier of the form is invoked exactly once, in
\* configured order, and the response is 200 "accepted" if and only if
\* every invocation succeeded.
Submitted(x) ==
    /\ pc = "done"
    /\ x.req.method = "POST"
    /\ x.req.path \in FormPaths
    /\ ~Unauthenticated(x.req)
    /\ OriginAllowed(x.req)
    /\ Counted(x) /\ last.ok
    /\ x.decoded = "object"
    /\ x.verr = NoError

Accepted(x) == x.status = 200 /\ x.body = <<"accepted">>

C7_EveryNotifierInvokedOnce ==
    Submitted(ex) =>
        /\ ex.invoked = FormOf(ex.req.path).SESNotifiers
        /\ Accepted(ex) <=> ex.delivered = ex.invoked

\* C7, amended: the notifiers of the form are invoked in configured order,
\* each at most once, up to and including the first whose rendering or
\* sending fails; the response is 200 "accepted" if and only if every
\* notifier of the form was invoked and succeeded, and 500 otherwise.
C7_NotifiersInOrderUntilFailure ==
    Submitted(ex) =>
        LET ns == FormOf(ex.req.path).SESNotifiers
            d == Len(ex.delivered)
        IN  /\ d <= Len(ns)
            /\ ex.delivered = SubSeq(ns, 1, d)
            /\ ex.invoked = SubSeq(ns, 1, IF d < Len(ns) THEN d + 1 ELSE d)
            /\ Accepted(ex) <=> ex.delivered = ns
            /\ ex.delivered # ns => ex.status = 500

C7_Witness ==
    /\ Submitted(ex)
    /\ ex.req.path = "/v1/forms/a/f1"
    /\ FormOf(ex.req.path).SESNotifiers = <<"n1", "n2">>
    /\ ex.invoked = <<"n1">>
    /\ ex.delivered = <<>>
    /\ ex.status = 500

\* C8: a notifier is invoked only for a request that passed path
\* resolution, CORS enforcement, token verification and rate limiting,
\* whose body decoded as a single JSON object and whose payload passed
\* validation.
C8_SendOnlyAfterEveryGate ==
    (ex.invoked # <<>> \/ ex.sent # <<>>) =>
        /\ ex.req.method = "POST"
        /\ ex.req.path \in FormPaths
        /\ ex.hasSite /\ ex.site = paths[ex.req.path].site
        /\ OriginAllowed(ex.req)
        /\ ~Unauthenticated(ex.req)
        /\ Counted(ex) /\ last.key = ex.key /\ last.ok
        /\ ex.trail = <<"recoverer", "maxBytes", "requestID", "pathContext", "corsByPath",
                         "verifyToken", "rateLimit", "ServeMux", "SubmitForm">>
        /\ ex.decoded = "object"
        /\ ex.verr = NoError

C8_Witness ==
    /\ pc = "done"
    /\ ex.req.path = "/v1/forms/a/f1"
    /\ ex.sent = <<"n1", "n2">>
    /\ ex.delivered = <<"n1", "n2">>
    /\ ex.verr = NoError
    /\ Accepted(ex)

\* A GET /health whose request identifier could be generated has been answered.
HealthAnswered(x) ==
    /\ pc = "done"
    /\ x.req.method = "GET"
    /\ x.req.path = "/health"
    /\ x.req.rand

\* C13 as stated: every GET /health request is answered 200 with body ok,
\* whatever its Origin header and without any token header, after any
\* sequence of earlier requests.
C13_HealthAlwaysOk ==
    HealthAnswered(ex) => (ex.status = 200 /\ ex.body = <<"ok">>)

\* C13, amended: a GET /health request is answered 200 with body ok,
\* whatever its Origin header and without any token header, unless its
\* client IP has spent the rate limit of the bucket of "_" and that IP, in
\* which case it is answered 429.
C13_HealthOkWithinQuota ==
    HealthAnswered(ex) =>
        /\ ex.key = "_|" \o remoteIP(ex.req)
        /\ last.key = ex.key
        /\ last.n <= limit => (ex.status = 200 /\ ex.body = <<"ok">>)
        /\ last.n > limit => ex.status = 429

C13_Witness ==
    /\ HealthAnswered(ex)
    /\ nreq = 2
    /\ ex.req.origin = "https://evil.example"
    /\ ex.req.token = ""
    /\ buckets["_|10.0.0.1"].count = 2
    /\ ex.status = 200
    /\ ex.body = <<"ok">>

\* C14: every response the pipeline sends carries an X-Request-Id header
\* holding the identifier generated for the request, whichever stage or
\* handler produced the response; a request for which no identifier can be
\* generated is answered 500 by the requestID stage.
C14_RequestIdOnEveryResponse ==
    pc = "done" =>
        /\ ex.status \in {200, 400, 401, 403, 404, 405, 429, 500}
        /\ ex.req.rand =>
               /\ ex.reqid # ""
               /\ "X-Request-Id" \in DOMAIN ex.header
               /\ ex.header["X-Request-Id"] = ex.reqid
        /\ ~ex.req.rand =>
               /\ ex.status = 500
               /\ ex.trail = <<"recoverer", "maxBytes", "requestID">>

C14_Witness ==
    /\ pc = "done"
    /\ ex.status = 429
    /\ ex.reqid = "rid"
    /\ ex.header["X-Request-Id"] = "rid"

\* C15: a panic raised in a stage or handler inside the recovery stage
\* ends in a generic 500 response for that request and does not leave the
\* recovery stage.
C15_PanicBecomes500 ==
    (pc = "done" /\ ex.verr.kind = "panic") =>
        /\ ~ex.panicked
        /\ ex.status = 500
        /\ ex.body = <<"Internal Server Error">>

C15_Witness ==
    /\ pc = "done"
    /\ ex.req.path = "/v1/forms/b/f1"
    /\ ex.verr = Panic("items")
    /\ ex.status = 500
    /\ ex.logged = -1

\* C16: a request whose body exceeds the byte ceiling is rejected before
\* path resolution, CORS enforcement, token verification, rate limiting and
\* the route handler run, and creates or changes no limiter bucket.
C16_OversizedRejectedFirst ==
    (pc = "done" /\ ex.decoded = "oversized") =>
        /\ ex.status \in {400, 413}
        /\ ~Reached(ex, "pathContext")
        /\ ~Reached(ex, "corsByPath")
        /\ ~Reached(ex, "verifyToken")
        /\ ~Reached(ex, "rateLimit")
        /\ ~HandlerReached(ex)
        /\ ~(Counted(ex) /\ last.ok)

\* What the code does with such a body: nothing looks at the body before
\* SubmitForm decodes it, after every stage ran and allow() counted the
\* request; the failed read is answered 400.
C16_OversizedRejectedByHandler ==
    (pc = "done" /\ ex.decoded = "oversized") =>
        /\ ex.status = 400
        /\ ex.trail = <<"recoverer", "maxBytes", "requestID", "pathContext", "corsByPath",
                         "verifyToken", "rateLimit", "ServeMux", "SubmitForm">>
        /\ Counted(ex) /\ last.ok
        /\ ex.invoked = <<>>

\* C17: if rendering or dispatch fails for the k-th notifier of a form,
\* the notifiers after it are never invoked for that request, the k-1
\* notifiers before it have each been sent exactly once and stay sent, and
\* the response is 500.
C17_FailureStopsTheLoop ==
    (pc = "done" /\ ex.invoked # ex.delivered) =>
        LET ns == FormOf(ex.req.path).SESNotifiers
            k == Len(ex.invoked)
        IN  /\ 1 <= k /\ k <= Len(ns)
            /\ ex.invoked = SubSeq(ns, 1, k)
            /\ ex.delivered = SubSeq(ns, 1, k - 1)
            /\ ex.sent \in {SubSeq(ns, 1, k - 1), SubSeq(ns, 1, k)}
            /\ NoRepeat(ex.sent)
            /\ ex.status = 500

C17_Witness ==
    /\ pc = "done"
    /\ FormOf(ex.req.path).SESNotifiers = <<"n1", "n2">>
    /\ ex.invoked = <<"n1", "n2">>
    /\ ex.sent = <<"n1", "n2">>
    /\ ex.delivered = <<"n1">>
    /\ ex.status = 500

\* The submission reached SubmitForm and its body did not decode as one
\* JSON object or validatePayload returned an error.
Rejected(x) ==
    /\ pc = "done"
    /\ Reached(x, "SubmitForm")
    /\ \/ x.decoded \in {"malformed", "oversized", "more"}
       \/ x.decoded = "object" /\ x.verr.kind = "error"

\* C19: the response to a rejected submission leaks no schema detail: any
\* two payloads that fail decoding or validation on the same form get the
\* same status and body, whatever field and rule each violates; every
\* rejected submission is answered 400 with the one generic body.
C19_RejectionIsGeneric ==
    Rejected(ex) => (ex.status = 400 /\ ex.body = <<"Bad Request">>)

C19_Witness ==
    /\ Rejected(ex)
    /\ ex.req.path = "/v1/forms/a/f1"
    /\ ex.verr = PayloadError("x", "unknown field")
    /\ ex.status = 400
    /\ ex.body = <<"Bad Request">>

\* The stages every request enters before the gating stages.
OuterStages == <<"recoverer", "maxBytes", "requestID">>

\* The gating stages in the order withMiddleware composes them.
GatingStages == <<"pathContext", "corsByPath", "verifyToken", "rateLimit">>

\* The trail of a request that entered the first n gating stages and
\* nothing after them.
StoppedAfter(n) == OuterStages \o SubSeq(GatingStages, 1, n)

\* The request has been answered and had passed request identification.
Gated(x) == pc = "done" /\ x.req.rand

\* The bucket the request would be counted in is live and holds no quota.
QuotaSpent(req) ==
    LET key == paths[req.path].site \o "|" \o remoteIP(req) IN
    /\ key \in DOMAIN buckets
    /\ buckets[key].count >= limit
    /\ ~After(clock, buckets[key].resetAt)

\* C21: the gating stages run in the fixed order path resolution, CORS,
\* token verification, rate limiting, and the first stage that rejects
\* decides the response: a request that violates several policies at once
\* gets 404 in preference to 403, 403 in preference to 401 and 401 in
\* preference to 429, and no stage after the rejecting one runs.
C21_FirstRejectingStageDecides ==
    Gated(ex) =>
        IF ex.req.path \notin DOMAIN paths
        THEN ex.status = 404 /\ ex.trail = StoppedAfter(1)
        ELSE IF ~OriginAllowed(ex.req)
        THEN ex.status = 403 /\ ex.trail = StoppedAfter(2)
        ELSE IF ex.req.method # "OPTIONS" /\ Unauthenticated(ex.req)
        THEN ex.status = 401 /\ ex.trail = StoppedAfter(3)
        ELSE /\ Counted(ex)
             /\ SubSeq(ex.trail, 1, 7) = StoppedAfter(4)
             /\ ~last.ok => (ex.status = 429 /\ ex.trail = StoppedAfter(4))
             /\ last.ok => (ex.status # 429 /\ Len(ex.trail) > 7 /\ ex.trail[8] = "ServeMux")

\* A submission with a foreign Origin and without its token, from a client
\* whose quota is spent: it breaks three policies and is answered 403.
C21_Witness ==
    /\ Gated(ex)
    /\ ex.req.method = "POST"
    /\ ex.req.path = "/v1/forms/a/f1"
    /\ ex.req.origin = "https://evil.example"
    /\ ex.req.token = ""
    /\ QuotaSpent(ex.req)
    /\ ex.status = 403
    /\ ex.trail = StoppedAfter(2)

\* C22: a request whose path is not in the path registry is always
\* answered 404 by path resolution and never 403; the CORS, token and
\* rate-limit stages and the route handler do not run for it and no
\* limiter bucket changes.  A request for a registered path has the owning
\* site id attached to its context before CORS runs.
C22_UnknownPathIs404 ==
    /\ [](Gated(ex) =>
            /\ ex.req.path \notin DOMAIN paths =>
                   /\ ex.status = 404
                   /\ ex.body = <<"Not Found">>
                   /\ ex.trail = StoppedAfter(1)
                   /\ ~HandlerReached(ex)
                   /\ ex.key = ""
            /\ ex.req.path \in DOMAIN paths =>
                   /\ Reached(ex, "corsByPath")
                   /\ ex.hasSite
                   /\ ex.corsSite = paths[ex.req.path].site)
    /\ [][(nreq' # nreq /\ ex'.req.path \notin DOMAIN paths) =>
              (pc' = "done" /\ buckets' = buckets /\ calls' = calls)]_vars

\* A request for a path nobody registered, answered after an earlier
\* request had opened a bucket.
C22_Witness ==
    /\ Gated(ex)
    /\ nreq = 2
    /\ ex.req.path = "/v1/forms/a/nope"
    /\ ex.status = 404
    /\ "a|10.0.0.1" \in DOMAIN buckets

\* The allowed-origin set of the tenant of a registered path holds "*".
Wildcard(req) == "*" \in paths[req.path].allowedOrigins

\* The request was handed on by corsByPath.
PassedCors(x) == Reached(x, "verifyToken")

\* The request was refused by corsByPath.
RefusedByCors(x) ==
    /\ x.status = 403
    /\ x.body = <<"Forbidden">>
    /\ x.trail = StoppedAfter(2)

\* C23: for a registered path whose allowed-origin set does not contain
\* "*", a request with a non-empty Origin header passes CORS enforcement
\* if the header value equals one member of the set exactly, and otherwise
\* is answered 403 with no later stage run; for a set containing "*" every
\* Origin value passes.
C23_OriginMatchedExactly ==
    (Gated(ex) /\ ex.req.path \in DOMAIN paths) =>
        /\ (~Wildcard(ex.req) /\ ex.req.origin # "") =>
               IF \E o \in paths[ex.req.path].allowedOrigins : o = ex.req.origin
               THEN PassedCors(ex) /\ ex.status # 403
               ELSE RefusedByCors(ex)
        /\ Wildcard(ex.req) => (PassedCors(ex) /\ ex.status # 403)

\* An Origin that differs from the allowed one by a closing slash only is
\* refused.
C23_Witness ==
    /\ Gated(ex)
    /\ ex.req.path = "/v1/forms/a/f1"
    /\ paths[ex.req.path].allowedOrigins = {"https://a.example"}
    /\ ex.req.origin = "https://a.example/"
    /\ RefusedByCors(ex)

\* C24: for a registered path whose allowed-origin set does not contain
\* "*", a request with no Origin header, or an empty one, is answered 403
\* and never reaches token verification, rate limiting or the route
\* handler.
C24_MissingOriginIs403 ==
    (Gated(ex) /\ ex.req.path \in DOMAIN paths /\ ~Wildcard(ex.req) /\ ex.req.origin = "") =>
        /\ RefusedByCors(ex)
        /\ ~Reached(ex, "verifyToken")
        /\ ~Reached(ex, "rateLimit")
        /\ ~Reached(ex, "ServeMux")
        /\ ~HandlerReached(ex)
        /\ ex.key = ""

\* A submission with the valid token and without an Origin.
C24_Witness ==
    /\ Gated(ex)
    /\ ex.req.method = "POST"
    /\ ex.req.path = "/v1/forms/a/f2"
    /\ ex.req.origin = ""
    /\ ex.req.token = "ta"
    /\ RefusedByCors(ex)

\* The response carries the header with the value.
Carries(x, name, value) == name \in DOMAIN x.header /\ x.header[name] = value

\* C25: every response to a request that passed CORS enforcement carries
\* Vary: Origin and an Access-Control-Allow-Origin header equal to the
\* Origin value of the request; for a tenant without the wildcard that
\* value is always a member of the allowed-origin set of the tenant, and a
\* response rejected by CORS carries no Access-Control-Allow-Origin header.
C25_AllowOriginEchoed ==
    Gated(ex) =>
        /\ PassedCors(ex) =>
               /\ Carries(ex, "Vary", "Origin")
               /\ Carries(ex, "Access-Control-Allow-Origin", ex.req.origin)
               /\ ~Wildcard(ex.req) =>
                      ex.header["Access-Control-Allow-Origin"] \in paths[ex.req.path].allowedOrigins
        /\ ~PassedCors(ex) =>
               /\ ex.status \in {403, 404}
               /\ "Access-Control-Allow-Origin" \notin DOMAIN ex.header
               /\ "Vary" \notin DOMAIN ex.header

\* The response of recoverer to a panic in the handler still carries what
\* corsByPath set.
C25_Witness ==
    /\ Gated(ex)
    /\ ex.req.path = "/v1/forms/b/f1"
    /\ ex.req.origin = "https://evil.example"
    /\ ex.verr.kind = "panic"
    /\ ex.status = 500
    /\ Carries(ex, "Access-Control-Allow-Origin", "https://evil.example")
    /\ Carries(ex, "Vary", "Origin")

\* An OPTIONS request for a registered form path with an allowed Origin
\* has been answered.
PreflightAnswered(x) ==
    /\ Gated(x)
    /\ x.req.method = "OPTIONS"
    /\ x.req.path \in FormPaths
    /\ OriginAllowed(x.req)

\* The preflight response of the form: 200, the allowed methods, the
\* allowed headers with the form-token header exactly when the form
\* declares a token, and the max-age of the form.
PreflightResponse(x, form) ==
    /\ x.status = 200
    /\ Carries(x, "Access-Control-Allow-Methods", "POST, OPTIONS")
    /\ Carries(x, "Access-Control-Allow-Headers",
               IF form.Token # ""
               THEN "Content-Type, " \o SiteTokenHeader \o ", " \o FormTokenHeader
               ELSE "Content-Type, " \o SiteTokenHeader)
    /\ Carries(x, "Access-Control-Max-Age", Itoa(form.AccessControlMaxAge))

\* C26 as stated: an OPTIONS request is never answered 401, whatever its
\* token header: on a registered form path with an allowed Origin it
\* bypasses token verification and receives the preflight response.
C26_PreflightAlwaysAnswered ==
    /\ (Gated(ex) /\ ex.req.method = "OPTIONS") => ex.status # 401
    /\ PreflightAnswered(ex) =>
           /\ Reached(ex, "verifyToken")
           /\ PreflightResponse(ex, FormOf(ex.req.path))

\* C26, amended: the same, except that the preflight is counted by the
\* rate limiter like every other request: it receives the preflight
\* response while the bucket of its site and client IP has quota left and
\* is answered 429 otherwise.
C26_PreflightWithinQuota ==
    /\ (Gated(ex) /\ ex.req.method = "OPTIONS") => ex.status # 401
    /\ PreflightAnswered(ex) =>
           /\ Reached(ex, "verifyToken")
           /\ Counted(ex) /\ last.key = ex.key
           /\ last.ok => (PreflightResponse(ex, FormOf(ex.req.path)) /\ Reached(ex, "FormPreflight"))
           /\ ~last.ok => (ex.status = 429 /\ ~Reached(ex, "FormPreflight"))

\* A preflight with the token of another site, for the form that declares
\* a token.
C26_Witness ==
    /\ PreflightAnswered(ex)
    /\ ex.req.path = "/v1/forms/a/f2"
    /\ ex.req.token = "tb"
    /\ FormOf(ex.req.path).Token = "tf"
    /\ ex.status = 200
    /\ ex.header["Access-Control-Allow-Headers"] =
           "Content-Type, config.SiteTokenHeader, config.FormTokenHeader"
    /\ ex.header["Access-Control-Max-Age"] = "0"

\* C36: for every request the response status is written by exactly one
\* component, once: the notification renderer never writes to the response
\* itself, the route handler alone writes the 400 or the 500.
C36_StatusWrittenOnce ==
    pc = "done" => ex.writes = 1

\* What remains of C36: the status is written twice only when rendering
\* failed at a subject, intro or display template, where handleSESNotifiers
\* and SubmitForm both answer 500; every other request is answered by one
\* write.
C36_WrittenTwiceOnlyByRenderer ==
    pc = "done" =>
        /\ ex.writes \in {1, 2}
        /\ ex.writes = 2 =>
               /\ Reached(ex, "SubmitForm")
               /\ ex.status = 500
               /\ ex.body = <<"Internal Server Error", "Internal Server Error">>
               /\ ex.invoked # <<>>
               /\ ex.sent = ex.delivered

\* The request at hand has passed requestID and has been answered.
Identified(x) == pc = "done" /\ x.reqid # ""

\* C37: every request that passes request identification produces exactly
\* one access-log record whose status equals the status sent to the client,
\* requests rejected by a gating stage and requests answered 500 by the
\* recovery stage included.
C37_LoggedWithSentStatus ==
    Identified(ex) => ex.logged = ex.status

\* What remains of C37: a request whose downstream stages return is logged
\* with the status sent; one whose handler panicked is answered 500 and
\* leaves no record.
C37_LoggedUnlessFaulted ==
    Identified(ex) =>
        IF ex.verr.kind = "panic"
        THEN ex.status = 500 /\ ex.logged = -1
        ELSE ex.logged = ex.status

\* C39: every request that reaches the rate-limit stage carries a
\* non-empty site id in its context, so the stage never answers 500 for a
\* missing site: a request it stops is answered 429.
C39_RateLimitHasSite ==
    Reached(ex, "rateLimit") =>
        /\ ex.hasSite
        /\ ex.site # ""
        /\ ex.site = paths[ex.req.path].site
        /\ (pc = "done" /\ ex.trail = StoppedAfter(4)) => ex.status = 429

\* A request of site a reached the rate-limit stage and was answered 429.
C39_Witness ==
    /\ pc = "done"
    /\ ex.trail = StoppedAfter(4)
    /\ ex.hasSite
    /\ ex.site = "a"
    /\ ex.status = 429

\* The limiter keys of the health-check path: the reserved id "_" and the
\* address of a client.
HealthKeys == { "_" \o "|" \o remoteIP(req) : req \in Requests \cup QuotaRequests }

\* The bucket of the key is created or changed by the step.
Touched(k) == k \notin DOMAIN buckets \/ buckets'[k] # buckets[k]

\* C40: the limiter key prefix of the health-check path is shared with no
\* tenant: a health-check request never creates or changes the bucket of a
\* tenant site, and a tenant request never changes a health-check bucket.
C40_HealthBucketsApart ==
    [][buckets' # buckets =>
           /\ pc = "limiter"
           /\ DOMAIN buckets \subseteq DOMAIN buckets'
           /\ \A k \in DOMAIN buckets' :
                  Touched(k) => (k \in HealthKeys <=> ex.req.path = "/health")]_vars

\* A health probe and a submission of the same client have been counted,
\* each in a bucket of its own.
C40_Witness ==
    /\ nreq = 2
    /\ "_|10.0.0.1" \in DOMAIN buckets
    /\ "a|10.0.0.1" \in DOMAIN buckets
    /\ buckets["_|10.0.0.1"].count = 1
    /\ buckets["a|10.0.0.1"].count = 1

----------------------------------------------------------------------------
(* Claims about the payload validator.                                     *)

\* The value rules of a field as the specification states them: a required
\* bool is true, an int lies in [min, max], a string is non-empty if
\* required and, when max # 0, has between min and max characters, an
\* object array is non-empty if required, has between min and max elements
\* and every element is a flat object with exactly the keys of the shape,
\* each of the declared primitive type.
ValidElement(shape, e) ==
    /\ e.t = "obj"
    /\ DOMAIN e.o = DOMAIN shape
    /\ \A n \in DOMAIN shape :
           \/ shape[n] = "bool" /\ e.o[n].t = "bool"
           \/ shape[n] = "int" /\ e.o[n].t = "num"
           \/ shape[n] = "string" /\ e.o[n].t = "str"

ValidValue(field, v) ==
    CASE field.type = "bool" -> v.t = "bool" /\ (field.required => v.b)
      [] field.type = "int" -> v.t = "num" /\ 2 * field.min <= v.h /\ v.h <= 2 * field.max
      [] field.type = "string" ->
             /\ v.t = "str"
             /\ field.required => v.s # <<>>
             /\ field.max # 0 => (field.min <= Len(v.s) /\ Len(v.s) <= field.max)
      [] field.type = "objects" ->
             /\ v.t = "arr"
             /\ field.required => v.a # <<>>
             /\ field.min <= Len(v.a) /\ Len(v.a) <= field.max
             /\ \A i \in 1..Len(v.a) : ValidElement(field.shape, v.a[i])

\* Every required field is there, every value is valid, no key is undeclared.
CompleteValid(fields, payload) ==
    /\ DOMAIN payload \subseteq DOMAIN fields
    /\ \A k \in DOMAIN fields : fields[k].required => k \in DOMAIN payload
    /\ \A k \in DOMAIN payload : ValidValue(fields[k], payload[k])

\* Every character of every string value of the payload is one byte long.
SingleByte(payload) ==
    \A k \in DOMAIN payload :
        payload[k].t = "str" => \A i \in 1..Len(payload[k].s) : ByteWidth(payload[k].s[i]) = 1

\* C9: validatePayload returns no error for a payload that holds every
\* required field, valid values only and no undeclared key; with one
\* required field removed from such a payload it returns "missing required
\* field" for the removed field; with one undeclared key added it returns
\* "unknown field" for the added key.
C9_CompleteRemoveAdd ==
    /\ (vop.kind = "validate" /\ CompleteValid(vform, vop.given)) => vres = NoError
    /\ (/\ vop.kind = "remove"
        /\ CompleteValid(vform, vop.given)
        /\ vop.key \in DOMAIN vform
        /\ vform[vop.key].required)
       => vres = PayloadError(vop.key, "missing required field")
    /\ (vop.kind = "add" /\ CompleteValid(vform, vop.given) /\ vop.key \notin DOMAIN vform)
       => vres = PayloadError(vop.key, "unknown field")

\* What remains of C9 for payloads whose strings hold one-byte characters
\* only, where len(s) is the number of characters.
C9_SingleByteOnly ==
    SingleByte(vop.given) => C9_CompleteRemoveAdd

\* C10: for a string field declared with max = 0 validatePayload never
\* rejects a value for its length; for max # 0 it accepts a string value
\* only if the value has between min and max characters.
C10_StringLength ==
    \A k \in DOMAIN vform :
        (vop.kind # "none" /\ vform[k].type = "string" /\ k \in DOMAIN vpayload) =>
            /\ vform[k].max = 0 => vres # PayloadError(k, "length out of range")
            /\ (vform[k].max # 0 /\ vres = NoError) =>
                   (/\ vform[k].min <= Len(vpayload[k].s)
                    /\ Len(vpayload[k].s) <= vform[k].max)

\* What remains of C10 when the length is counted in bytes, as len(s) does.
C10_ByteLength ==
    \A k \in DOMAIN vform :
        (vop.kind # "none" /\ vform[k].type = "string" /\ k \in DOMAIN vpayload) =>
            /\ vform[k].max = 0 => vres # PayloadError(k, "length out of range")
            /\ (vform[k].max # 0 /\ vres = NoError) =>
                   (/\ vform[k].min <= len(vpayload[k].s)
                    /\ len(vpayload[k].s) <= vform[k].max)

\* The shape declares primitive types only.
PrimitiveShape(shape) == \A n \in DOMAIN shape : shape[n] \in {"bool", "int", "string"}

\* The errors validatePayload returns for an element of the array of field k.
ElementErrors(k) ==
    { PayloadError(k, m) :
        m \in {"element not a map", "unknown sub-field", "sub-value type", "sub-value missing"} }

\* C11: for an object-array field validatePayload rejects the payload if an
\* element of the array lacks a key of the shape, holds a key the shape
\* does not declare, is not a flat object, or holds a sub-value whose type
\* is not the declared primitive type; it returns no error about the
\* elements when every element has exactly the keys of the shape, each
\* with a value of the declared type.
C11_ElementsMatchShape ==
    \A k \in DOMAIN vform :
        (/\ vop.kind # "none"
         /\ vform[k].type = "objects"
         /\ PrimitiveShape(vform[k].shape)
         /\ k \in DOMAIN vpayload
         /\ vpayload[k].t = "arr") =>
            LET arr == vpayload[k].a IN
            /\ (\E i \in 1..Len(arr) : ~ValidElement(vform[k].shape, arr[i])) =>
                   vres.kind = "error"
            /\ (\A i \in 1..Len(arr) : ValidElement(vform[k].shape, arr[i])) =>
                   vres \notin ElementErrors(k)

C11_Witness ==
    /\ vop.kind = "validate"
    /\ vform["f"].type = "objects"
    /\ vform["f"].shape = [k |-> "int", j |-> "bool"]
    /\ vpayload = [f |-> Arr(<<Obj([k |-> Num(2), j |-> Bool(TRUE)]), Obj([k |-> Num(2)])>>)]
    /\ vres = PayloadError("f", "sub-value missing")

\* Field k is an integer field and the payload holds a number for it.
NumberGiven(k) ==
    /\ vop.kind # "none"
    /\ vform[k].type = "int"
    /\ k \in DOMAIN vpayload
    /\ vpayload[k].t = "num"

\* C31: for an integer field validatePayload accepts a JSON number value if
\* and only if the value lies in [min, max]; this holds for every number
\* the JSON body can carry, including non-integral ones such as max + 0.5
\* or min - 0.5.
C31_IntegerInRange ==
    \A k \in DOMAIN vform :
        NumberGiven(k) =>
            IF 2 * vform[k].min <= vpayload[k].h /\ vpayload[k].h <= 2 * vform[k].max
            THEN vres # PayloadError(k, "value out of range")
            ELSE vres.kind = "error"

\* What remains of C31: the value is accepted if and only if the value
\* truncated toward zero, int(f), lies in [min, max].
C31_TruncatedInRange ==
    \A k \in DOMAIN vform :
        NumberGiven(k) =>
            IF vform[k].min <= int(vpayload[k].h) /\ int(vpayload[k].h) <= vform[k].max
            THEN vres # PayloadError(k, "value out of range")
            ELSE vres.kind = "error"

\* Field k is an object-array field and the payload holds an array for it.
ArrayGiven(k) ==
    /\ vop.kind # "none"
    /\ vform[k].type = "objects"
    /\ k \in DOMAIN vpayload
    /\ vpayload[k].t = "arr"

\* C32: for an object-array field min and max bound the element count:
\* validatePayload rejects a payload whose array for that field has fewer
\* than min or more than max elements.
C32_ElementCountBounded ==
    \A k \in DOMAIN vform :
        (/\ ArrayGiven(k)
         /\ \/ Len(vpayload[k].a) < vform[k].min
            \/ Len(vpayload[k].a) > vform[k].max)
        => vres.kind = "error"

\* What remains of C32: the one test of the element count is that the
\* array of a required field is not empty.
C32_EmptyRequiredRejected ==
    \A k \in DOMAIN vform :
        (ArrayGiven(k) /\ vform[k].required /\ Len(vpayload[k].a) = 0) => vres.kind = "error"

\* The dynamic type of the value is the type the field declares.
TypeMatches(field, v) ==
    \/ field.type = "bool" /\ v.t = "bool"
    \/ field.type = "int" /\ v.t = "num"
    \/ field.type = "string" /\ v.t = "str"
    \/ field.type = "objects" /\ v.t = "arr"

\* The payload key is undeclared, or its value has another dynamic type
\* than its field declares.
Offending(k) ==
    /\ k \in DOMAIN vpayload
    /\ k \in DOMAIN vform => ~TypeMatches(vform[k], vpayload[k])

\* The error names the field its message is about.
NamesItsField(e) ==
    CASE e.msg = "unknown field" -> e.field \in (DOMAIN vpayload) \ (DOMAIN vform)
      [] e.msg = "invalid type" -> e.field \in DOMAIN vform /\ Offending(e.field)
      [] e.msg = "missing required field" ->
             /\ e.field \in (DOMAIN vform) \ (DOMAIN vpayload)
             /\ vform[e.field].required
      [] OTHER -> e.field \in (DOMAIN vform) \cap (DOMAIN vpayload)

\* C33: validation is two-pass and fail-fast: if any payload key is
\* undeclared or has a dynamic type different from the declared type of its
\* field, a null value included, validatePayload returns an unknown-field
\* or invalid-type error for such a key and never a missing-field or
\* out-of-range error; every error it returns names the field concerned.
C33_TypeErrorsComeFirst ==
    vop.kind # "none" =>
        /\ (\E k \in DOMAIN vpayload : Offending(k)) =>
               /\ vres.kind = "error"
               /\ vres.msg \in {"unknown field", "invalid type"}
               /\ Offending(vres.field)
        /\ vres.kind = "error" => NamesItsField(vres)

\* A null for f, while the required g is absent: the error is about f.
C33_Witness ==
    /\ vop.kind = "validate"
    /\ vform["f"].type = "int"
    /\ vform["g"].required
    /\ vpayload = [f |-> Null]
    /\ vres = PayloadError("f", "invalid type")

\* C34: for every configuration accepted by config validation and every
\* decoded payload, validatePayload never faults: its panic branches are
\* unreachable, so an invalid payload yields a validation error.
C34_NeverFaults ==
    vop.kind # "none" => vres.kind # "panic"

\* Every sub-field of every object-array field declares a primitive type.
PrimitiveShapes ==
    \A k \in DOMAIN vform :
        \A n \in DOMAIN vform[k].shape : vform[k].shape[n] \in {"bool", "int", "string"}

\* What remains of C34: with primitive shapes only, validatePayload never
\* faults; the type assertions of the second loop never fail.
C34_PrimitiveShapesNeverFault ==
    (vop.kind # "none" /\ PrimitiveShapes) => vres.kind # "panic"

----------------------------------------------------------------------------
(* Claims about configuration validation.                                  *)

\* fieldOrder and hiddenFields name declared fields only, share no name and
\* together name every field of the form.
CoversFields(c) ==
    /\ Range(c.order) \cup Range(c.hidden) \subseteq c.fields
    /\ Range(c.order) \cap Range(c.hidden) = {}
    /\ c.fields \subseteq Range(c.order) \cup Range(c.hidden)

\* C12 as stated: validation of a notifier whose fieldOrder is present
\* succeeds if and only if fieldOrder and hiddenFields name only declared
\* fields, share no name and together cover every field of the form; when
\* fieldOrder is absent only the names of hiddenFields are checked.
C12_OrderAndHiddenCover ==
    nres # "none" =>
        /\ ncfg.hasOrder => (nres = "" <=> CoversFields(ncfg))
        /\ ~ncfg.hasOrder => (nres = "" <=> Range(ncfg.hidden) \subseteq ncfg.fields)

\* C12, amended: with fieldOrder present validation succeeds if and only
\* if, besides, fieldOrder names no field twice: fieldOrder and
\* hiddenFields partition the fields of the form.
C12_OrderAndHiddenPartition ==
    nres # "none" =>
        /\ ncfg.hasOrder => (nres = "" <=> (CoversFields(ncfg) /\ NoRepeat(ncfg.order)))
        /\ ~ncfg.hasOrder => (nres = "" <=> Range(ncfg.hidden) \subseteq ncfg.fields)

C12_Witness ==
    /\ ncfg = [fields |-> {"f", "g"}, hidden |-> <<>>, order |-> <<"f">>, hasOrder |-> TRUE]
    /\ nres = "field missing in field order and hidden fields"

\* Config.validate has returned for the configuration loaded.
Validated == boot.pc \notin {"none", "load"}

\* The site lists two forms with the same id.
DuplicateForm(site) ==
    \E i, j \in 1..Len(site.Forms) : i # j /\ site.Forms[i].ID = site.Forms[j].ID

\* C35: form ids are unique within their site: config validation rejects a
\* site that lists two forms with the same id.
C35_DuplicateFormRejected ==
    (Validated /\ \E i \in 1..Len(boot.cfg.Sites) : DuplicateForm(boot.cfg.Sites[i]))
        => boot.err # ""

\* What remains of C35: when no site of an accepted configuration repeats a
\* form id, New registers every form path once and for one (site, form)
\* pair.
C35_DistinctFormsOwnedOnce ==
    (boot.pc \in {"run", "exit"} /\ boot.err = "" /\ boot.patterns # {}
     /\ \A i \in 1..Len(boot.cfg.Sites) : ~DuplicateForm(boot.cfg.Sites[i]))
        => /\ ~boot.panicked
           /\ \A o, q \in boot.owners : o[1] = q[1] => o = q

\* The keys a rendered body shows, in the order it shows them.
KeysOf(body) == [i \in 1..Len(body) |-> body[i].key]

\* The body shows the fields C38 says it does.
ShowsWhatItShould(body) ==
    /\ IF Len(rnd.order) > 0
       THEN KeysOf(body) = rnd.order
       ELSE /\ Range(KeysOf(body)) = (DOMAIN rnd.payload) \ Range(rnd.hidden)
            /\ \A i, j \in 1..Len(body) : body[i].key = body[j].key => i = j
    /\ \A i \in 1..Len(body) :
           /\ body[i].key \notin Range(rnd.hidden)
           /\ body[i].key \in DOMAIN rnd.fields
           /\ body[i].label = IF rnd.fields[body[i].key].DisplayName # ""
                              THEN rnd.fields[body[i].key].DisplayName
                              ELSE body[i].key

\* C38: in each rendered HTML and text body the fields shown are exactly
\* those of fieldOrder, in that order, when the notifier has a non-empty
\* fieldOrder, and otherwise exactly the payload keys that are not in
\* hiddenFields; a field listed in hiddenFields never appears, and each
\* field is labelled with its displayName if set, else its raw name.
C38_RenderedFields ==
    rnd.pc = "done" => ShowsWhatItShould(rnd.html) /\ ShowsWhatItShould(rnd.text)

\* No fieldOrder, g hidden and f given with a display name: the bodies
\* show f alone, under its display name.
C38_Witness ==
    /\ rnd.pc = "done"
    /\ rnd.order = <<>>
    /\ rnd.hidden = <<"g">>
    /\ DOMAIN rnd.payload = {"f", "g"}
    /\ rnd.html = <<[key |-> "f", label |-> "F"]>>
    /\ rnd.text = rnd.html

\* C39, on the side of the configuration: the registry New builds from an
\* accepted configuration names a non-empty site for every path.
C39_RegisteredSitesNamed ==
    boot.pc = "run" => \A p \in DOMAIN boot.paths : boot.paths[p].site # ""

\* C40, on the side of the configuration: in the registry New builds from
\* an accepted configuration the reserved id "_" belongs to /health alone.
C40_ReservedForHealth ==
    boot.pc = "run" =>
        \A p \in DOMAIN boot.paths : boot.paths[p].site = "_" <=> p = "/health"

----------------------------------------------------------------------------
(* Claims about the process.                                               *)

\* The goroutine of the server stands at its send and the process runs.
AtSend == mn.srv \in {"send closed", "send failed"} /\ mn.pc # "exited"

\* Where main stands once the select has chosen.
PastSelect == {"shutdown", "fatal", "return", "exited"}

\* Where main stands once Shutdown has returned.
PastShutdown == {"fatal", "return", "exited"}

\* Shutdown is called only after the select received an event that fired,
\* and once; the exit code follows what Shutdown returned; the send of the
\* server goroutine can proceed whenever the goroutine stands at it.
ShutdownDiscipline ==
    /\ mn.trigger # "none" <=> mn.pc \in PastSelect
    /\ mn.trigger # "none" => mn.trigger \in mn.fired
    /\ mn.shutdowns = (IF mn.pc \in PastShutdown THEN 1 ELSE 0)
    /\ mn.shutdowns > 0 => mn.trigger # "none"
    /\ mn.pc = "exited" <=> mn.code # -1
    /\ mn.code = 0 => mn.serr = "nil"
    /\ mn.code # 0 /\ mn.code # -1 => mn.serr = "error"
    /\ AtSend => ENABLED SendResult

\* C20: shutdown is triggered by the first of two events, a stop signal or
\* Run returning an error: Shutdown is never called before one of them
\* fired and is called exactly once after it; the process then eventually
\* exits, with code 0 if Shutdown returned no error and a non-zero code if
\* it returned one; the send of Run's result by the server goroutine never
\* blocks forever.
C20_ShutdownOnFirstEvent ==
    /\ []ShutdownDiscipline
    /\ (mn.fired # {}) ~> (mn.pc = "exited")
    /\ AtSend ~> (mn.srv = "done" \/ mn.pc = "exited")

\* A signal triggered the shutdown, Shutdown returned nil and the process
\* left with code 0, while the result of Run, ErrServerClosed, went into
\* the buffer of errCh with nobody to receive it.
C20_Witness ==
    /\ mn.trigger = "signal"
    /\ mn.shutdowns = 1
    /\ mn.serr = "nil"
    /\ mn.pc = "exited"
    /\ mn.code = 0
    /\ mn.srv = "done"
    /\ mn.errCh = <<"closed">>

====
